---- MODULE Spec2Model ----
(***************************************************************************)
(* Model of the simulation core of LLMSandBox (src/newserver): the world   *)
(* model (entities, components, locations, containers, tasks), the effect  *)
(* executor (WorldExecutor.execute), the world builder and the tick        *)
(* scheduler (WorldManager.step).                                          *)
(*                                                                         *)
(* Python values are modelled as follows.                                  *)
(*  - A missing id / None location is the empty string "" (the code does   *)
(*    str(ctx.get(key, "")), and get_entity_by_id("") is None).            *)
(*  - dicts that the code iterates (ws.entities, ws.locations, slots) are  *)
(*    a key sequence plus a function; lists are sequences.                 *)
(*  - An exception that leaves execute()/step() is the flag `raised` of    *)
(*    the call's result; the world keeps what was written before it.       *)
(*  - Unbounded recursion (RecursionError) is detected by the stack of ids *)
(*    being processed: re-entering an id that is on the stack repeats the  *)
(*    same calls forever in the code.                                      *)
(***************************************************************************)
EXTENDS Integers, Sequences, FiniteSets, TLC

\* ------------------------------------------------------------------ bounds
\* Number of entities CreateEntity may add with a generated (uuid) id.
MaxCreated == 1
\* Number of tasks CreateTask may add (task ids are generated uuids).
MaxTasks == 2
\* Number of scheduler steps of one run.
MaxTicks == 2
\* Number of calls made to the executor from outside in one behaviour.
MaxCalls == 3
\* The same, in the behaviours of the task effects.
MaxTaskCalls == 4

\* ------------------------------------------------------------ small helpers
None == ""

Range(s) == { s[i] : i \in 1..Len(s) }

InSeq(x, s) == \E i \in 1..Len(s) : s[i] = x

\* list.remove(x): removes the first occurrence
RECURSIVE RemoveFirst(_, _)
RemoveFirst(s, x) ==
    IF s = <<>> THEN <<>>
    ELSE IF Head(s) = x THEN Tail(s)
    ELSE <<Head(s)>> \o RemoveFirst(Tail(s), x)

\* position of the first element of s satisfying membership in S, 0 if none
RECURSIVE FirstIndexIn(_, _, _)
FirstIndexIn(s, S, i) ==
    IF i > Len(s) THEN 0
    ELSE IF s[i] \in S THEN i
    ELSE FirstIndexIn(s, S, i + 1)

\* ------------------------------------------------------------- identifiers
LocationOrder == <<"locA", "locB">>
LocationIds == Range(LocationOrder)

BuiltIds == {"alice", "bob", "carol", "chest1", "bag1", "apple1"}
UuidIds == { "new1", "new2" }
EntityIds == BuiltIds \cup UuidIds
UuidOf(n) == IF n = 0 THEN "new1" ELSE "new2"

\* the ids uuid4 hands out to tasks, in the order of their creation; t0 is
\* the id of no task
TaskUuids == <<"t1", "t2", "t3", "t4", "t5", "t6", "t7", "t8", "t9", "t10", "t11", "t12">>
TaskIds == {"t0"} \cup { TaskUuids[i] : i \in 1..Len(TaskUuids) }
TaskUuidOf(n) == TaskUuids[n + 1]

\* ---------------------------------------------------------------- templates
\* The entity templates handed to the builder and to WorldExecutor
\* (entity_templates): component names in declaration order and their data.
NoSlots == <<>>

ChestSlots ==
    << [slot_id |-> "main", capacity_count |-> 2, accepted_tags |-> {},
        transparent |-> FALSE, items |-> <<>>] >>

BagSlots ==
    << [slot_id |-> "main", capacity_count |-> 1, accepted_tags |-> {"item"},
        transparent |-> TRUE, items |-> <<>>] >>

DefaultRules ==
    << [type |-> "LowNutrition", priority |-> 10, threshold |-> 50],
       [type |-> "Idle", priority |-> 999, threshold |-> 0] >>

\* rules in the order a template may list them: Idle given the smaller
\* priority value, and listed last
ContraryRules ==
    << [type |-> "LowNutrition", priority |-> 10, threshold |-> 50],
       [type |-> "Idle", priority |-> 5, threshold |-> 0] >>

TemplateIds ==
    {"agent_tpl", "chest_tpl", "bag_tpl", "apple_tpl", "hungry_tpl", "dormant_tpl",
     "contrary_tpl", "prey_tpl"}

EntityTemplates ==
    [ agent_tpl |->
        [ components |-> <<"TagComponent", "CreatureComponent",
                           "AgentControlComponent", "DecisionArbiterComponent",
                           "ConditionComponent">>,
          tags |-> {"agent"}, slots |-> NoSlots, max_nutrition |-> 100,
          rules |-> DefaultRules, name |-> "Villager", disabled |-> {},
          provider_id |-> "" ],
      \* an agent whose nutrition starts below the LowNutrition threshold
      hungry_tpl |->
        [ components |-> <<"TagComponent", "CreatureComponent",
                           "AgentControlComponent", "DecisionArbiterComponent">>,
          tags |-> {"agent"}, slots |-> NoSlots, max_nutrition |-> 40,
          rules |-> DefaultRules, name |-> "Beggar", disabled |-> {},
          provider_id |-> "" ],
      \* the same, its controller written with enabled: false
      dormant_tpl |->
        [ components |-> <<"TagComponent", "CreatureComponent",
                           "AgentControlComponent", "DecisionArbiterComponent">>,
          tags |-> {"agent"}, slots |-> NoSlots, max_nutrition |-> 40,
          rules |-> DefaultRules, name |-> "Sleeper",
          disabled |-> {"AgentControlComponent"}, provider_id |-> "" ],
      \* the same, enabled, its Idle rule given the smaller priority value
      contrary_tpl |->
        [ components |-> <<"TagComponent", "CreatureComponent",
                           "AgentControlComponent", "DecisionArbiterComponent">>,
          tags |-> {"agent"}, slots |-> NoSlots, max_nutrition |-> 40,
          rules |-> ContraryRules, name |-> "Idler", disabled |-> {},
          provider_id |-> "" ],
      \* an agent that can be eaten
      prey_tpl |->
        [ components |-> <<"TagComponent", "CreatureComponent",
                           "AgentControlComponent", "DecisionArbiterComponent">>,
          tags |-> {"agent", "edible"}, slots |-> NoSlots, max_nutrition |-> 100,
          rules |-> DefaultRules, name |-> "Rabbit", disabled |-> {},
          provider_id |-> "" ],
      chest_tpl |->
        [ components |-> <<"TagComponent", "ContainerComponent">>,
          tags |-> {"container"}, slots |-> ChestSlots, max_nutrition |-> 0,
          rules |-> <<>>, name |-> "Chest", disabled |-> {}, provider_id |-> "" ],
      bag_tpl |->
        [ components |-> <<"TagComponent", "ContainerComponent">>,
          tags |-> {"item"}, slots |-> BagSlots, max_nutrition |-> 0,
          rules |-> <<>>, name |-> "Bag", disabled |-> {}, provider_id |-> "" ],
      apple_tpl |->
        [ components |-> <<"TagComponent">>,
          tags |-> {"item", "edible"}, slots |-> NoSlots, max_nutrition |-> 0,
          rules |-> <<>>, name |-> "Apple", disabled |-> {}, provider_id |-> "" ] ]

\* ------------------------------------------------------------------- entity
HasComponent(e, name) == InSeq(name, e.components)

\* Entity.get_all_tags
GetAllTags(e) == IF HasComponent(e, "TagComponent") THEN e.tags ELSE {}

\* ContainerComponent.get_all_item_ids: items of all slots, in slot order
RECURSIVE SlotsItemIds(_)
SlotsItemIds(slots) ==
    IF slots = <<>> THEN <<>>
    ELSE Head(slots).items \o SlotsItemIds(Tail(slots))

GetAllItemIds(e) ==
    IF HasComponent(e, "ContainerComponent") THEN SlotsItemIds(e.slots) ELSE <<>>

\* ContainerComponent.has_item_id
HasItemId(e, item_id) == InSeq(item_id, SlotsItemIds(e.slots))

\* ContainerComponent._find_first_available_slot_for: index of the first slot
\* with room (capacity_count) that accepts the item's tags, 0 if none
RECURSIVE FindFirstAvailableSlotFor(_, _, _)
FindFirstAvailableSlotFor(slots, item_tags, i) ==
    IF i > Len(slots) THEN 0
    ELSE IF Len(slots[i].items) >= slots[i].capacity_count
        THEN FindFirstAvailableSlotFor(slots, item_tags, i + 1)
    ELSE IF ~(slots[i].accepted_tags \subseteq item_tags)
        THEN FindFirstAvailableSlotFor(slots, item_tags, i + 1)
    ELSE i

\* ContainerComponent.add_entity(item) with no target slot: the result
\* [ok, slots]; refuses an id the container already holds
AddEntity(slots, item_id, item_tags) ==
    LET i == FindFirstAvailableSlotFor(slots, item_tags, 1) IN
    IF item_id = None THEN [ok |-> FALSE, slots |-> slots]
    ELSE IF InSeq(item_id, SlotsItemIds(slots)) THEN [ok |-> FALSE, slots |-> slots]
    ELSE IF i = 0 THEN [ok |-> FALSE, slots |-> slots]
    ELSE [ok |-> TRUE,
          slots |-> [slots EXCEPT ![i].items = Append(@, item_id)]]

\* ContainerComponent.remove_entity_by_id: removes the id from the first slot
\* holding it
RECURSIVE RemoveFromSlots(_, _)
RemoveFromSlots(slots, item_id) ==
    IF slots = <<>> THEN <<>>
    ELSE IF InSeq(item_id, Head(slots).items)
        THEN <<[Head(slots) EXCEPT !.items = RemoveFirst(@, item_id)]>> \o Tail(slots)
    ELSE <<Head(slots)>> \o RemoveFromSlots(Tail(slots), item_id)

RemoveEntityById(slots, item_id) ==
    [ok |-> InSeq(item_id, SlotsItemIds(slots)),
     slots |-> RemoveFromSlots(slots, item_id)]

\* The controller components (controller_resolver.py) in resolution order
ControllerOrder ==
    <<"PlayerControlComponent", "AgentControlComponent", "LLMControlComponent",
      "LogicControlComponent">>
ControllerNames == Range(ControllerOrder)

\* list.sort(key = priority): stable insertion of a rule into a sorted list
RECURSIVE InsertByPriority(_, _)
InsertByPriority(sorted, rule) ==
    IF sorted = <<>> THEN <<rule>>
    ELSE IF rule.priority < Head(sorted).priority THEN <<rule>> \o sorted
    ELSE <<Head(sorted)>> \o InsertByPriority(Tail(sorted), rule)

\* from_template_data without its sort: the rules in template order
RECURSIVE FromTemplateDataUnsorted(_)
FromTemplateDataUnsorted(rules_raw) ==
    IF rules_raw = <<>> THEN <<>>
    ELSE IF Head(rules_raw).type \in {"Idle", "LowNutrition"}
        THEN <<Head(rules_raw)>> \o FromTemplateDataUnsorted(Tail(rules_raw))
    ELSE FromTemplateDataUnsorted(Tail(rules_raw))

\* DecisionArbiterComponent.from_template_data: the Idle and LowNutrition
\* rules of the template, other types dropped, sorted by priority
RECURSIVE FromTemplateData(_)
FromTemplateData(rules_raw) ==
    IF rules_raw = <<>> THEN <<>>
    ELSE LET n == Len(rules_raw)
             front == FromTemplateData(SubSeq(rules_raw, 1, n - 1))
         IN  IF rules_raw[n].type \in {"Idle", "LowNutrition"}
                THEN InsertByPriority(front, rules_raw[n])
             ELSE front

\* create_entity_from_template: the components of the template, plus a
\* WorkerComponent for an entity tagged "agent"
CreateEntityFromTemplate(template_id) ==
    LET t == EntityTemplates[template_id]
        isAgent == InSeq("TagComponent", t.components) /\ "agent" \in t.tags
    IN  [ template_id |-> template_id,
          components |-> IF isAgent /\ ~InSeq("WorkerComponent", t.components)
                         THEN Append(t.components, "WorkerComponent")
                         ELSE t.components,
          tags |-> t.tags,
          slots |-> IF InSeq("ContainerComponent", t.components) THEN t.slots ELSE NoSlots,
          current_task_id |-> None,
          host_tasks |-> {},
          current_nutrition |-> t.max_nutrition,
          enabled |-> (Range(t.components) \cap ControllerNames) \ t.disabled,
          provider_id |-> t.provider_id,
          entity_name |-> t.name,
          rules |-> FromTemplateData(t.rules) ]

\* -------------------------------------------------------------- world state
\* A world value W: entities (key order of ws.entities), ent (the entity
\* objects), locations (entities_in_location per location), tasks (keys of
\* the global task index), task (the Task objects, shared by the index and
\* the hosts), uuid / task_uuid (how many generated ids were handed out),
\* total_ticks (game_time).
Registered(W, entity_id) == InSeq(entity_id, W.entities)

\* WorldState.get_entity_by_id is Registered + W.ent[id]; get_location_by_id:
IsLocation(location_id) == location_id \in LocationIds

\* WorldState._find_container_entity_holding_item: first entity, in table
\* order, whose container holds the id
RECURSIVE FindHolderFrom(_, _, _)
FindHolderFrom(W, item_id, i) ==
    IF i > Len(W.entities) THEN None
    ELSE IF InSeq(item_id, GetAllItemIds(W.ent[W.entities[i]])) THEN W.entities[i]
    ELSE FindHolderFrom(W, item_id, i + 1)

FindContainerEntityHoldingItem(W, item_id) == FindHolderFrom(W, item_id, 1)

\* first location, in ws.locations order, whose list holds the id
RECURSIVE FirstLocationListing(_, _, _)
FirstLocationListing(W, entity_id, i) ==
    IF i > Len(LocationOrder) THEN None
    ELSE IF InSeq(entity_id, W.locations[LocationOrder[i]]) THEN LocationOrder[i]
    ELSE FirstLocationListing(W, entity_id, i + 1)

\* the resolution, were it to look at the location lists only
ResolveDirectOnly(W, entity_id, visited) ==
    IF entity_id = None THEN None ELSE FirstLocationListing(W, entity_id, 1)

\* WorldState._resolve_location_for_entity, with its visited set
RECURSIVE ResolveLocationForEntity(_, _, _)
ResolveLocationForEntity(W, entity_id, visited) ==
    IF entity_id = None THEN None
    ELSE IF entity_id \in visited THEN None
    ELSE LET direct == FirstLocationListing(W, entity_id, 1)
             parent == FindContainerEntityHoldingItem(W, entity_id)
         IN  IF direct # None THEN direct
             ELSE IF parent # None
                 THEN ResolveLocationForEntity(W, parent, visited \cup {entity_id})
             ELSE None

\* WorldState.get_location_of_entity
GetLocationOfEntity(W, entity_id) == ResolveLocationForEntity(W, entity_id, {})

\* WorldState.ensure_entity_in_location
EnsureEntityInLocation(W, entity_id, location_id) ==
    IF ~IsLocation(location_id) THEN W
    ELSE IF InSeq(entity_id, W.locations[location_id]) THEN W
    ELSE [W EXCEPT !.locations[location_id] = Append(@, entity_id)]

\* WorldState.ensure_entity_removed_from_location
EnsureEntityRemovedFromLocation(W, entity_id, location_id) ==
    IF ~IsLocation(location_id) THEN W
    ELSE [W EXCEPT !.locations[location_id] = RemoveFirst(@, entity_id)]

\* WorldState.move_ids_between_locations
RECURSIVE MoveIdsBetweenLocations(_, _, _, _)
MoveIdsBetweenLocations(W, ids, from_location_id, to_location_id) ==
    IF ids = <<>> THEN W
    ELSE MoveIdsBetweenLocations(
            EnsureEntityInLocation(
                EnsureEntityRemovedFromLocation(W, Head(ids), from_location_id),
                Head(ids), to_location_id),
            Tail(ids), from_location_id, to_location_id)

\* WorldState.collect_descendant_item_ids: [ids, raised]. The code recurses
\* without a guard: on a containment cycle it never returns (RecursionError),
\* which is `raised` here, found by the stack of roots being collected.
RECURSIVE CollectDescendantItemIds(_, _, _)
RECURSIVE CollectChildren(_, _, _)
CollectChildren(W, children, stack) ==
    IF children = <<>> THEN [ids |-> <<>>, raised |-> FALSE]
    ELSE LET sub == CollectDescendantItemIds(W, Head(children), stack) IN
         IF sub.raised THEN [ids |-> <<>>, raised |-> TRUE]
         ELSE LET rest == CollectChildren(W, Tail(children), stack) IN
              [ids |-> <<Head(children)>> \o sub.ids \o rest.ids,
               raised |-> rest.raised]

CollectDescendantItemIds(W, root_entity_id, stack) ==
    IF root_entity_id \in stack THEN [ids |-> <<>>, raised |-> TRUE]
    ELSE IF ~Registered(W, root_entity_id) THEN [ids |-> <<>>, raised |-> FALSE]
    ELSE CollectChildren(W, GetAllItemIds(W.ent[root_entity_id]),
                         stack \cup {root_entity_id})

\* ----------------------------------------------------------------- executor
\* An effect (effect_data) and a context, with every key the executor reads;
\* a key that is absent from the dict is "" (or the empty list).
EffectBase ==
    [ effect |-> "", target |-> "", template |-> "", has_destination |-> FALSE,
      destination_type |-> "", destination_target |-> "", instance_id |-> "",
      component |-> "", property |-> "", change |-> 0, condition_id |-> "",
      task_id |-> "", delta |-> 0, status |-> "" ]

ContextBase ==
    [ agent_id |-> "", target_id |-> "", entity_id |-> "", source_id |-> "",
      destination_id |-> "", entity_to_destroy_id |-> "",
      entities_for_consumption_ids |-> <<>>, task_id |-> "", recipe |-> "",
      created_task_id |-> "" ]

\* An event of the returned list: its type and the id (or message) it carries.
Ev(type, id) == [type |-> type, id |-> id]

\* The result of a call: the world, the returned events, the context as the
\* call left it, and whether an exception left the call instead of a list.
Result(W, events, ctx) == [ws |-> W, events |-> events, ctx |-> ctx, raised |-> FALSE]
Raise(W, events, ctx) == [ws |-> W, events |-> events, ctx |-> ctx, raised |-> TRUE]
ExecutorError(W, ctx, message) == Result(W, <<Ev("ExecutorError", message)>>, ctx)

\* WorldExecutor._resolve_entity_from_ctx: the id the context gives under
\* key (or key + "_id"); the caller tests Registered for the entity
CtxId(ctx, key) ==
    CASE key \in {"target", "target_id"} -> ctx.target_id
      [] key \in {"agent", "agent_id"} -> ctx.agent_id
      [] key \in {"entity", "entity_id"} -> ctx.entity_id
      [] key \in {"source", "source_id"} -> ctx.source_id
      [] key \in {"destination", "destination_id"} -> ctx.destination_id
      [] key \in {"entity_to_destroy", "entity_to_destroy_id"} -> ctx.entity_to_destroy_id
      [] key \in {"task", "task_id"} -> ctx.task_id
      [] OTHER -> None

\* WorldExecutor._resolve_container_or_location_from_ctx: "entity" for an
\* entity with a ContainerComponent, "location" for a location id, else "none"
NodeKind(W, id_val) ==
    IF Registered(W, id_val) /\ HasComponent(W.ent[id_val], "ContainerComponent")
        THEN "entity"
    ELSE IF IsLocation(id_val) THEN "location"
    ELSE "none"

\* WorldState.register_entity (the caller has checked the id is free)
RegisterEntity(W, entity_id, e) ==
    [W EXCEPT !.entities = Append(@, entity_id),
              !.ent = [x \in (DOMAIN @) \cup {entity_id} |->
                          IF x = entity_id THEN e ELSE @[x]]]

\* ws.entities.pop(entity_id, None): the id leaves the table; the Entity
\* object lives on for whoever still holds it (W.ent keeps it)
PopEntity(W, entity_id) ==
    [W EXCEPT !.entities = RemoveFirst(@, entity_id)]

\* The components the builder keeps as UnknownComponent(data = the dict of the
\* template): every entity of a template shares that one dict.
IsUnknownComponent(name) == name = "ConditionComponent"

UnknownProps == {"conditions", "severity"}

\* comp.data[prop] of the entity's UnknownComponent: absent, a list or a number
UnknownData(W, entity_id, prop) ==
    IF prop \in UnknownProps THEN W.unknown_data[W.ent[entity_id].template_id][prop]
    ELSE [kind |-> "absent", list |-> <<>>, number |-> 0]

SetUnknownData(W, entity_id, prop, value) ==
    IF prop \in UnknownProps
        THEN [W EXCEPT !.unknown_data[W.ent[entity_id].template_id][prop] = value]
    ELSE W

\* WorldExecutor._execute_modify_property
ExecuteModifyProperty(W, data, ctx) ==
    LET tid == CtxId(ctx, data.target) IN
    IF ~Registered(W, tid)
        THEN ExecutorError(W, ctx, "ModifyProperty: target missing")
    ELSE IF ~HasComponent(W.ent[tid], data.component)
        THEN ExecutorError(W, ctx, "ModifyProperty: component missing")
    ELSE IF data.component = "CreatureComponent"
        THEN IF data.property # "current_nutrition"
                THEN ExecutorError(W, ctx, "ModifyProperty: property missing")
             ELSE Result([W EXCEPT !.ent[tid].current_nutrition = @ + data.change],
                         <<Ev("PropertyModified", tid)>>, ctx)
    ELSE IF IsUnknownComponent(data.component)
        THEN LET cur == UnknownData(W, tid, data.property) IN
             IF cur.kind = "list"
                \* float(list) fails inside the try
                THEN ExecutorError(W, ctx, "ModifyProperty: failed to write UnknownComponent")
             ELSE Result(SetUnknownData(W, tid, data.property,
                             [kind |-> "number", list |-> <<>>,
                              number |-> cur.number + data.change]),
                         <<Ev("PropertyModified", tid)>>, ctx)
    ELSE ExecutorError(W, ctx, "ModifyProperty: unsupported component type")

\* WorldExecutor._get_or_create_conditions_list: [ws, ok]; setdefault makes
\* the list when the key is absent
GetOrCreateConditionsList(W, tid) ==
    IF ~HasComponent(W.ent[tid], "ConditionComponent") THEN [ws |-> W, ok |-> FALSE]
    ELSE LET cur == UnknownData(W, tid, "conditions") IN
         IF cur.kind = "absent"
            THEN [ws |-> SetUnknownData(W, tid, "conditions",
                            [kind |-> "list", list |-> <<>>, number |-> 0]),
                  ok |-> TRUE]
         ELSE [ws |-> W, ok |-> cur.kind = "list"]

\* WorldExecutor._execute_add_condition
ExecuteAddCondition(W, data, ctx) ==
    LET tid == CtxId(ctx, data.target) IN
    IF ~Registered(W, tid) \/ data.condition_id = ""
        THEN ExecutorError(W, ctx, "AddCondition: missing target or condition_id")
    ELSE LET g == GetOrCreateConditionsList(W, tid) IN
         IF ~g.ok
            THEN ExecutorError(g.ws, ctx, "AddCondition: ConditionComponent missing")
         ELSE LET cur == UnknownData(g.ws, tid, "conditions") IN
              Result(IF InSeq(data.condition_id, cur.list) THEN g.ws
                     ELSE SetUnknownData(g.ws, tid, "conditions",
                              [cur EXCEPT !.list = Append(@, data.condition_id)]),
                     <<Ev("ConditionAdded", tid)>>, ctx)

\* WorldExecutor._execute_remove_condition
ExecuteRemoveCondition(W, data, ctx) ==
    LET tid == CtxId(ctx, data.target) IN
    IF ~Registered(W, tid) \/ data.condition_id = ""
        THEN ExecutorError(W, ctx, "RemoveCondition: missing target or condition_id")
    ELSE LET g == GetOrCreateConditionsList(W, tid) IN
         IF ~g.ok
            THEN ExecutorError(g.ws, ctx, "RemoveCondition: ConditionComponent missing")
         ELSE LET cur == UnknownData(g.ws, tid, "conditions") IN
              Result(SetUnknownData(g.ws, tid, "conditions",
                         [cur EXCEPT !.list = RemoveFirst(@, data.condition_id)]),
                     <<Ev("ConditionRemoved", tid)>>, ctx)

\* PlaceCreatedEntity without the location index of a container placement
PlaceCreatedEntitySlotOnly(W, data, ctx, new_id) ==
    LET parent == CtxId(ctx, data.destination_target)
        added == AddEntity(W.ent[parent].slots, new_id, GetAllTags(W.ent[new_id]))
        inContainer ==
            /\ data.destination_type = "container"
            /\ Registered(W, parent)
            /\ HasComponent(W.ent[parent], "ContainerComponent")
            /\ added.ok
    IN  IF inContainer
            THEN [ws |-> [W EXCEPT !.ent[parent].slots = added.slots], placed |-> TRUE]
        ELSE [ws |-> W, placed |-> FALSE]

\* WorldExecutor._execute_create_entity, lines 148-175: the placement of the
\* registered entity; [ws, placed]
PlaceCreatedEntity(W, data, ctx, new_id) ==
    LET parent == CtxId(ctx, data.destination_target)
        agent == ctx.agent_id
        added == AddEntity(W.ent[parent].slots, new_id, GetAllTags(W.ent[new_id]))
        inContainer ==
            /\ data.destination_type = "container"
            /\ Registered(W, parent)
            /\ HasComponent(W.ent[parent], "ContainerComponent")
            /\ added.ok
        W1 == IF inContainer
                THEN LET Wc == [W EXCEPT !.ent[parent].slots = added.slots] IN
                     EnsureEntityInLocation(Wc, new_id, GetLocationOfEntity(Wc, parent))
              ELSE W
        agentLoc == IF Registered(W1, agent) THEN GetLocationOfEntity(W1, agent) ELSE None
    IN  IF inContainer THEN [ws |-> W1, placed |-> TRUE]
        ELSE IF agentLoc # None
            \* the "location" branch and the fallback do the same placement
            THEN [ws |-> EnsureEntityInLocation(W1, new_id, agentLoc), placed |-> TRUE]
        ELSE [ws |-> W1, placed |-> FALSE]

\* WorldExecutor._execute_create_entity
ExecuteCreateEntity(W, data, ctx) ==
    IF data.template = "" \/ ~data.has_destination
        THEN ExecutorError(W, ctx, "CreateEntity: missing template or destination")
    ELSE IF data.template \notin TemplateIds
        THEN ExecutorError(W, ctx, "CreateEntity: template not found")
    ELSE LET generated == data.instance_id = ""
             new_id == IF generated THEN UuidOf(W.uuid) ELSE data.instance_id
             Wu == IF generated THEN [W EXCEPT !.uuid = @ + 1] ELSE W
         IN  IF Registered(W, new_id)
                \* ws.register_entity raises ValueError
                THEN Raise(W, <<>>, ctx)
             ELSE LET Wr == RegisterEntity(Wu, new_id, CreateEntityFromTemplate(data.template))
                      p == PlaceCreatedEntity(Wr, data, ctx, new_id)
                  IN  Result(p.ws, <<Ev("EntityCreated", new_id)>>, ctx)

\* execute() calls itself through DestroyEntity, ConsumeInputs and FinishTask.
\* `stack` holds the ids whose DestroyEntity is in progress up the call chain.
RECURSIVE Execute(_, _, _, _)

\* lines 200-203: strip the id from every location list
RemoveFromAllLocations(W, entity_id) ==
    [W EXCEPT !.locations = [l \in LocationIds |-> RemoveFirst(@[l], entity_id)]]

\* lines 205-211: strip the id from every slot of every registered container
RECURSIVE StripSlots(_, _)
StripSlots(slots, entity_id) ==
    IF slots = <<>> THEN <<>>
    ELSE <<[Head(slots) EXCEPT !.items = RemoveFirst(@, entity_id)]>>
         \o StripSlots(Tail(slots), entity_id)

RemoveFromAllContainers(W, entity_id) ==
    [W EXCEPT !.ent = [x \in DOMAIN @ |->
        IF HasComponent(@[x], "ContainerComponent")
        THEN [@[x] EXCEPT !.slots = StripSlots(@, entity_id)]
        ELSE @[x]]]

\* lines 197-198: destroy the children listed when the loop started, in order
RECURSIVE DestroyChildren(_, _, _, _)
DestroyChildren(W, children, ctx, stack) ==
    IF children = <<>> THEN Result(W, <<>>, ctx)
    ELSE LET one == Execute(W, [EffectBase EXCEPT !.effect = "DestroyEntity",
                                                  !.target = "entity_to_destroy"],
                            [ContextBase EXCEPT !.entity_to_destroy_id = Head(children)],
                            stack)
         IN  IF one.raised THEN Raise(one.ws, one.events, ctx)
             ELSE LET rest == DestroyChildren(one.ws, Tail(children), ctx, stack) IN
                  [rest EXCEPT !.events = one.events \o @]

\* lines 213-214 after 200-211: the entity leaves every index and the table
StripAndDelete(W, entity_id) ==
    PopEntity(RemoveFromAllContainers(RemoveFromAllLocations(W, entity_id), entity_id),
              entity_id)

\* WorldExecutor._execute_destroy_entity
ExecuteDestroyEntity(W, data, ctx, stack) ==
    LET target_key == IF data.target = "" THEN "entity_to_destroy" ELSE data.target
        eid == CtxId(ctx, target_key)
    IN  IF ~Registered(W, eid)
            THEN ExecutorError(W, ctx, "DestroyEntity: target missing")
        ELSE IF eid \in stack
            \* the entity contains itself, directly or not: the recursion of
            \* lines 197-198 never ends (RecursionError)
            THEN Raise(W, <<>>, ctx)
        ELSE LET kids == DestroyChildren(W, GetAllItemIds(W.ent[eid]), ctx,
                                         stack \cup {eid})
             IN  IF kids.raised THEN kids
                 ELSE Result(StripAndDelete(kids.ws, eid),
                             Append(kids.events, Ev("EntityDestroyed", eid)), ctx)

\* lines 243-251: removal from the source; [ok, ws]
RemoveFromSource(W, entity_id, source_id, source_is_location, cross_location) ==
    IF source_is_location
        THEN [ok |-> TRUE,
              ws |-> IF cross_location
                     THEN [W EXCEPT !.locations[source_id] = RemoveFirst(@, entity_id)]
                     ELSE W]
    ELSE LET r == RemoveEntityById(W.ent[source_id].slots, entity_id) IN
         [ok |-> r.ok, ws |-> [W EXCEPT !.ent[source_id].slots = r.slots]]

\* lines 253-262: insertion at the destination; [ok, ws]
AddToDestination(W, entity_id, destination_id, dest_is_location, dest_loc) ==
    IF dest_is_location
        \* Location.add_entity_id: False when the id is already listed
        THEN IF InSeq(entity_id, W.locations[destination_id])
                THEN [ok |-> FALSE, ws |-> W]
             ELSE [ok |-> TRUE,
                   ws |-> [W EXCEPT !.locations[destination_id] = Append(@, entity_id)]]
    ELSE LET a == AddEntity(W.ent[destination_id].slots, entity_id,
                            GetAllTags(W.ent[entity_id]))
             Wa == [W EXCEPT !.ent[destination_id].slots = a.slots]
         IN  IF ~a.ok THEN [ok |-> FALSE, ws |-> W]
             ELSE [ok |-> TRUE,
                   ws |-> IF dest_loc # None
                          THEN EnsureEntityInLocation(Wa, entity_id, dest_loc)
                          ELSE Wa]

\* The location of a transfer's source or destination node (lines 228-237)
NodeLocation(W, node_id) ==
    IF NodeKind(W, node_id) = "location" THEN node_id
    ELSE GetLocationOfEntity(W, node_id)

\* lines 239-241
CrossLocation(source_loc, dest_loc) ==
    source_loc # None /\ dest_loc # None /\ source_loc # dest_loc

\* CascadeTransfer moving the entity alone, its contents left behind
CascadeTransferEntityOnly(W, ctx, entity_id, source_loc, dest_loc) ==
    Result(MoveIdsBetweenLocations(W, <<entity_id>>, source_loc, dest_loc),
           <<Ev("EntityTransferred", entity_id)>>, ctx)

\* lines 267-273: the cascade of a cross-location transfer
CascadeTransfer(W, ctx, entity_id, source_loc, dest_loc) ==
    LET desc == IF HasComponent(W.ent[entity_id], "ContainerComponent")
                THEN CollectDescendantItemIds(W, entity_id, {})
                ELSE [ids |-> <<>>, raised |-> FALSE]
    IN  IF desc.raised THEN Raise(W, <<>>, ctx)
        ELSE Result(MoveIdsBetweenLocations(W, <<entity_id>> \o desc.ids,
                                            source_loc, dest_loc),
                    <<Ev("EntityTransferred", entity_id)>>, ctx)

\* WorldExecutor._execute_transfer_entity
ExecuteTransferEntity(W, data, ctx) ==
    LET eid == ctx.entity_id
        src == ctx.source_id
        dst == ctx.destination_id
    IN  IF ~Registered(W, eid) \/ NodeKind(W, src) = "none" \/ NodeKind(W, dst) = "none"
            THEN ExecutorError(W, ctx, "TransferEntity: missing entity/source/destination")
        ELSE
        LET source_loc == NodeLocation(W, src)
            dest_loc == NodeLocation(W, dst)
            cross_location == CrossLocation(source_loc, dest_loc)
            removed == RemoveFromSource(W, eid, src, NodeKind(W, src) = "location",
                                        cross_location)
            added == AddToDestination(removed.ws, eid, dst,
                                      NodeKind(W, dst) = "location", dest_loc)
        IN  IF ~removed.ok
                THEN ExecutorError(W, ctx, "TransferEntity: failed to remove from source container")
            ELSE IF ~added.ok
                THEN ExecutorError(added.ws, ctx, "TransferEntity: failed to add to destination")
            ELSE IF cross_location
                THEN CascadeTransfer(added.ws, ctx, eid, source_loc, dest_loc)
            ELSE Result(added.ws, <<Ev("EntityTransferred", eid)>>, ctx)

\* consume_inputs returning from inside its loop, after the first id
ConsumeFirstOnly(W, ids, ctx, stack) ==
    IF ids = <<>> THEN Result(W, <<>>, ctx)
    ELSE Execute(W, [EffectBase EXCEPT !.effect = "DestroyEntity",
                                       !.target = "entity_to_destroy"],
                 [ContextBase EXCEPT !.entity_to_destroy_id = Head(ids)], stack)

\* WorldExecutor._execute_consume_inputs
RECURSIVE ExecuteConsumeInputs(_, _, _, _)
ExecuteConsumeInputs(W, ids, ctx, stack) ==
    IF ids = <<>> THEN Result(W, <<>>, ctx)
    ELSE LET one == Execute(W, [EffectBase EXCEPT !.effect = "DestroyEntity",
                                                  !.target = "entity_to_destroy"],
                            [ContextBase EXCEPT !.entity_to_destroy_id = Head(ids)],
                            stack)
         IN  IF one.raised THEN Raise(one.ws, one.events, ctx)
             ELSE LET rest == ExecuteConsumeInputs(one.ws, Tail(ids), ctx, stack) IN
                  [rest EXCEPT !.events = one.events \o @]

\* ------------------------------------------------------------------ recipes
\* The recipe table (recipe_db), in declaration order. `outputs` become the
\* completion effects of the task when required_progress is not 0.
RecipeOrder == <<"sleep", "nibble", "eat", "smash", "wait", "poke", "nap">>
RecipeIds == Range(RecipeOrder)

RecipeDb ==
    [ sleep |->
        [ verb |-> "Sleep", target_tags |-> {"agent"}, required_progress |-> 2,
          outputs |-> << [EffectBase EXCEPT !.effect = "ModifyProperty",
                             !.target = "target", !.component = "CreatureComponent",
                             !.property = "current_nutrition", !.change = -60] >>,
          base_progress_per_tick |-> 1, tick_effects |-> <<>>,
          parameter_match |-> <<>> ],
      \* declared before eat, for the same verb and tag; parameter_match is
      \* the dict as key, value, key, value in its order
      nibble |->
        [ verb |-> "Eat", target_tags |-> {"edible"}, required_progress |-> 0,
          outputs |-> << [EffectBase EXCEPT !.effect = "ModifyProperty",
                             !.target = "agent", !.component = "CreatureComponent",
                             !.property = "current_nutrition", !.change = 10] >>,
          base_progress_per_tick |-> 1, tick_effects |-> <<>>,
          parameter_match |-> <<"mode", "nibble", "style", "slow">> ],
      eat |->
        [ verb |-> "Eat", target_tags |-> {"edible"}, required_progress |-> 0,
          outputs |-> << [EffectBase EXCEPT !.effect = "ModifyProperty",
                             !.target = "agent", !.component = "CreatureComponent",
                             !.property = "current_nutrition", !.change = 60],
                         [EffectBase EXCEPT !.effect = "DestroyEntity",
                             !.target = "target"] >>,
          base_progress_per_tick |-> 1, tick_effects |-> <<>>,
          parameter_match |-> <<>> ],
      smash |->
        [ verb |-> "Smash", target_tags |-> {"container"}, required_progress |-> 1,
          outputs |-> << [EffectBase EXCEPT !.effect = "DestroyEntity",
                             !.target = "target"] >>,
          base_progress_per_tick |-> 1, tick_effects |-> <<>>,
          parameter_match |-> <<>> ],
      wait |->
        [ verb |-> "Wait", target_tags |-> {}, required_progress |-> 0,
          outputs |-> <<>>, base_progress_per_tick |-> 1, tick_effects |-> <<>>,
          parameter_match |-> <<>> ],
      \* an output that needs a component an item does not have
      poke |->
        [ verb |-> "Poke", target_tags |-> {"item"}, required_progress |-> 0,
          outputs |-> << [EffectBase EXCEPT !.effect = "ModifyProperty",
                             !.target = "target", !.component = "CreatureComponent",
                             !.property = "current_nutrition", !.change = -1] >>,
          base_progress_per_tick |-> 1, tick_effects |-> <<>>,
          parameter_match |-> <<>> ],
      \* a task whose tick effect advances it as well
      nap |->
        [ verb |-> "Nap", target_tags |-> {"agent"}, required_progress |-> 2,
          outputs |-> << [EffectBase EXCEPT !.effect = "ModifyProperty",
                             !.target = "target", !.component = "CreatureComponent",
                             !.property = "current_nutrition", !.change = -10] >>,
          base_progress_per_tick |-> 1,
          tick_effects |-> << [EffectBase EXCEPT !.effect = "ProgressTask",
                                  !.delta = 1] >>,
          parameter_match |-> <<>> ] ]

\* -------------------------------------------------------------------- tasks
\* Task.is_complete
IsComplete(t) == t.progress >= t.required_progress

\* The name under which an entity carries its task host, "" if it has none
\* (TaskHostComponent, or the old name TaskComponent)
HostName(e) ==
    IF HasComponent(e, "TaskHostComponent") THEN "TaskHostComponent"
    ELSE IF HasComponent(e, "TaskComponent") THEN "TaskComponent"
    ELSE None

\* WorldState.register_task (the caller has checked the id is free)
RegisterTask(W, task_id, t) ==
    [W EXCEPT !.tasks = @ \cup {task_id},
              !.task = [x \in (DOMAIN @) \cup {task_id} |->
                          IF x = task_id THEN t ELSE @[x]]]

\* WorldState.unregister_task
UnregisterTask(W, task_id) == [W EXCEPT !.tasks = @ \ {task_id}]

\* TaskHostComponent.add_task on the host of entity host_id, which gets a
\* TaskHostComponent first when it has none (lines 338-347)
HostAddTask(W, host_id, task_id) ==
    [W EXCEPT !.ent[host_id].components =
                  IF HostName(W.ent[host_id]) = None
                  THEN Append(@, "TaskHostComponent") ELSE @,
              !.ent[host_id].host_tasks = @ \cup {task_id}]

\* TaskHostComponent.remove_task on the host of entity host_id, if it has one
\* (lines 458-463)
HostRemoveTask(W, host_id, task_id) ==
    IF Registered(W, host_id) /\ HostName(W.ent[host_id]) # None
        THEN [W EXCEPT !.ent[host_id].host_tasks = @ \ {task_id}]
    ELSE W

\* lines 349-365: the Task built from the recipe
TaskFromRecipe(recipe_id, target_id) ==
    LET r == RecipeDb[recipe_id] IN
    [ task_type |-> r.verb, target_entity_id |-> target_id,
      progress |-> 0, required_progress |-> r.required_progress,
      task_status |-> "Inactive", assigned_agent_ids |-> <<>>,
      completion_effects |-> r.outputs,
      base_progress_per_tick |-> r.base_progress_per_tick,
      tick_effects |-> r.tick_effects ]

\* the assignment, were a Worker that holds a task to keep it
AssignIfFree(W, agent_id, task_id) ==
    [W EXCEPT !.ent[agent_id].current_task_id = IF @ = None THEN task_id ELSE @,
              !.task[task_id].task_status = "InProgress",
              !.task[task_id].assigned_agent_ids =
                  IF InSeq(agent_id, @) THEN @ ELSE Append(@, agent_id)]

\* lines 373-384: the task is given to the agent's Worker
AssignToWorker(W, agent_id, task_id) ==
    [W EXCEPT !.ent[agent_id].current_task_id = task_id,
              !.task[task_id].task_status = "InProgress",
              !.task[task_id].assigned_agent_ids =
                  IF InSeq(agent_id, @) THEN @ ELSE Append(@, agent_id)]

\* WorldExecutor._execute_create_task
ExecuteCreateTask(W, data, ctx) ==
    LET target_id == ctx.target_id
        agent_id == ctx.agent_id
        hasAgent == agent_id # None /\ Registered(W, agent_id)
        host_id == IF hasAgent THEN agent_id ELSE target_id
        task_id == TaskUuidOf(W.task_uuid)
    IN  IF ~Registered(W, target_id)
            THEN ExecutorError(W, ctx, "CreateTask: target missing")
        ELSE IF ctx.recipe \notin RecipeIds
            THEN ExecutorError(W, ctx, "CreateTask: recipe missing in context")
        ELSE LET W1 == [HostAddTask(W, host_id, task_id) EXCEPT !.task_uuid = @ + 1]
                 W2 == RegisterTask(W1, task_id, TaskFromRecipe(ctx.recipe, target_id))
                 ctx2 == [ctx EXCEPT !.created_task_id = task_id]
             IN  IF hasAgent /\ HasComponent(W.ent[agent_id], "WorkerComponent")
                    THEN Result(AssignToWorker(W2, agent_id, task_id),
                                <<Ev("TaskCreated", task_id), Ev("TaskAssigned", task_id)>>,
                                ctx2)
                 ELSE Result(W2, <<Ev("TaskCreated", task_id)>>, ctx2)

\* WorldExecutor._execute_progress_task
ExecuteProgressTask(W, data, ctx) ==
    LET task_id == IF data.task_id # "" THEN data.task_id ELSE ctx.task_id IN
    IF task_id \notin W.tasks
        THEN ExecutorError(W, ctx, "ProgressTask: task not found")
    ELSE Result([W EXCEPT !.task[task_id].progress = @ + data.delta],
                <<Ev("TaskProgressed", task_id)>>, ctx)

\* WorldExecutor._execute_update_task_status
ExecuteUpdateTaskStatus(W, data, ctx) ==
    LET task_id == IF data.task_id # "" THEN data.task_id ELSE ctx.task_id IN
    IF task_id \notin W.tasks
        THEN ExecutorError(W, ctx, "UpdateTaskStatus: task not found")
    ELSE Result([W EXCEPT !.task[task_id].task_status = data.status],
                <<Ev("TaskStatusChanged", task_id)>>, ctx)

\* a list of effects executed in order under one context that each call may
\* change (lines 446-448)
RECURSIVE ExecuteAll(_, _, _, _)
ExecuteAll(W, effects, ctx, stack) ==
    IF effects = <<>> THEN Result(W, <<>>, ctx)
    ELSE LET one == Execute(W, Head(effects), ctx, stack) IN
         IF one.raised THEN one
         ELSE LET rest == ExecuteAll(one.ws, Tail(effects), one.ctx, stack) IN
              [rest EXCEPT !.events = one.events \o @]

\* lines 450-456: the entity whose host FinishTask cleans, "" if none
FinishHostEntity(W, ctx, t) ==
    IF ctx.agent_id # None /\ Registered(W, ctx.agent_id) THEN ctx.agent_id
    ELSE IF Registered(W, t.target_entity_id) THEN t.target_entity_id
    ELSE None

\* lines 450-465: detach from the host, unregister globally
DetachAndUnregister(W, ctx, task_id) ==
    UnregisterTask(HostRemoveTask(W, FinishHostEntity(W, ctx, W.task[task_id]), task_id),
                   task_id)

\* WorldExecutor._execute_finish_task
ExecuteFinishTask(W, data, ctx, stack) ==
    LET task_id == ctx.task_id IN
    IF task_id \notin W.tasks
        THEN ExecutorError(W, ctx, "FinishTask: task not found")
    ELSE LET t == W.task[task_id]
             ctx1 == IF ctx.target_id = "" THEN [ctx EXCEPT !.target_id = t.target_entity_id]
                     ELSE ctx
             effects == IF t.completion_effects # <<>> THEN t.completion_effects
                        ELSE IF ctx1.recipe \in RecipeIds THEN RecipeDb[ctx1.recipe].outputs
                        ELSE <<>>
             done == ExecuteAll(W, effects, ctx1, stack)
         IN  IF done.raised THEN done
             ELSE Result(DetachAndUnregister(done.ws, done.ctx, task_id),
                         Append(done.events, Ev("TaskFinished", task_id)), done.ctx)

\* execute, were an unrecognized tag to raise
ExecuteOrRaise(W, effect_data, context, stack) ==
    CASE effect_data.effect = "" ->
            ExecutorError(W, context, "missing effect type")
      [] effect_data.effect = "ModifyProperty" ->
            ExecuteModifyProperty(W, effect_data, context)
      [] effect_data.effect = "CreateEntity" ->
            ExecuteCreateEntity(W, effect_data, context)
      [] effect_data.effect = "DestroyEntity" ->
            ExecuteDestroyEntity(W, effect_data, context, stack)
      [] effect_data.effect = "TransferEntity" ->
            ExecuteTransferEntity(W, effect_data, context)
      [] effect_data.effect = "AddCondition" ->
            ExecuteAddCondition(W, effect_data, context)
      [] effect_data.effect = "RemoveCondition" ->
            ExecuteRemoveCondition(W, effect_data, context)
      [] effect_data.effect = "ConsumeInputs" ->
            ExecuteConsumeInputs(W, context.entities_for_consumption_ids, context, stack)
      [] effect_data.effect = "CreateTask" ->
            ExecuteCreateTask(W, effect_data, context)
      [] effect_data.effect = "ProgressTask" ->
            ExecuteProgressTask(W, effect_data, context)
      [] effect_data.effect = "UpdateTaskStatus" ->
            ExecuteUpdateTaskStatus(W, effect_data, context)
      [] effect_data.effect = "FinishTask" ->
            ExecuteFinishTask(W, effect_data, context, stack)
      [] OTHER ->
            Raise(W, <<>>, context)

\* WorldExecutor.execute
Execute(W, effect_data, context, stack) ==
    CASE effect_data.effect = "" ->
            ExecutorError(W, context, "missing effect type")
      [] effect_data.effect = "ModifyProperty" ->
            ExecuteModifyProperty(W, effect_data, context)
      [] effect_data.effect = "CreateEntity" ->
            ExecuteCreateEntity(W, effect_data, context)
      [] effect_data.effect = "DestroyEntity" ->
            ExecuteDestroyEntity(W, effect_data, context, stack)
      [] effect_data.effect = "TransferEntity" ->
            ExecuteTransferEntity(W, effect_data, context)
      [] effect_data.effect = "AddCondition" ->
            ExecuteAddCondition(W, effect_data, context)
      [] effect_data.effect = "RemoveCondition" ->
            ExecuteRemoveCondition(W, effect_data, context)
      [] effect_data.effect = "ConsumeInputs" ->
            ExecuteConsumeInputs(W, context.entities_for_consumption_ids, context, stack)
      [] effect_data.effect = "CreateTask" ->
            ExecuteCreateTask(W, effect_data, context)
      [] effect_data.effect = "ProgressTask" ->
            ExecuteProgressTask(W, effect_data, context)
      [] effect_data.effect = "UpdateTaskStatus" ->
            ExecuteUpdateTaskStatus(W, effect_data, context)
      [] effect_data.effect = "FinishTask" ->
            ExecuteFinishTask(W, effect_data, context, stack)
      [] OTHER ->
            ExecutorError(W, context, "unknown effect type")

\* ------------------------------------------------------------------ builder
\* The world bundle handed to build_world_state: per location (in order) the
\* entity snapshots, and the persisted tasks.
Snapshot(template_id, instance_id, parent_container) ==
    [template_id |-> template_id, instance_id |-> instance_id,
     parent_container |-> parent_container]

\* an apple in a chest, a bag in the other location
BundleWorld ==
    [ locations |->
        [ locA |-> << Snapshot("agent_tpl", "alice", ""),
                      Snapshot("chest_tpl", "chest1", ""),
                      Snapshot("apple_tpl", "apple1", "chest1") >>,
          locB |-> << Snapshot("bag_tpl", "bag1", "") >> ],
      tasks |-> <<>> ]

\* an apple in a bag in a chest
BundleNested ==
    [ locations |->
        [ locA |-> << Snapshot("agent_tpl", "alice", ""),
                      Snapshot("chest_tpl", "chest1", ""),
                      Snapshot("bag_tpl", "bag1", "chest1"),
                      Snapshot("apple_tpl", "apple1", "bag1") >>,
          locB |-> <<>> ],
      tasks |-> <<>> ]

Bundles == {BundleWorld, BundleNested}

EmptyWorld ==
    [ entities |-> <<>>, ent |-> [x \in {} |-> 0],
      locations |-> [l \in LocationIds |-> <<>>],
      tasks |-> {}, task |-> [x \in {} |-> 0],
      unknown_data |-> [t \in TemplateIds |-> [p \in UnknownProps |->
                          [kind |-> "absent", list |-> <<>>, number |-> 0]]],
      event_log |-> <<>>, interaction_log |-> <<>>, interaction_seq |-> 0,
      uuid |-> 0, task_uuid |-> 0, total_ticks |-> 0 ]

\* builder.py lines 69-87: the snapshots of one location are created,
\* registered and listed in it
RECURSIVE BuildEntities(_, _, _)
BuildEntities(W, location_id, snapshots) ==
    IF snapshots = <<>> THEN W
    ELSE LET sn == Head(snapshots)
             Wr == RegisterEntity(W, sn.instance_id,
                                  CreateEntityFromTemplate(sn.template_id))
         IN  BuildEntities(
                [Wr EXCEPT !.locations[location_id] = Append(@, sn.instance_id)],
                location_id, Tail(snapshots))

RECURSIVE BuildLocations(_, _, _)
BuildLocations(W, bundle, i) ==
    IF i > Len(LocationOrder) THEN W
    ELSE BuildLocations(
            BuildEntities(W, LocationOrder[i], bundle.locations[LocationOrder[i]]),
            bundle, i + 1)

\* _current_move_entity_between_locations
RECURSIVE RemoveFromOtherLocations(_, _, _, _)
RemoveFromOtherLocations(W, entity_id, to_location_id, i) ==
    IF i > Len(LocationOrder) THEN W
    ELSE RemoveFromOtherLocations(
            IF LocationOrder[i] # to_location_id
            THEN EnsureEntityRemovedFromLocation(W, entity_id, LocationOrder[i])
            ELSE W,
            entity_id, to_location_id, i + 1)

CurrentMoveEntityBetweenLocations(W, entity_id, to_location_id) ==
    EnsureEntityInLocation(RemoveFromOtherLocations(W, entity_id, to_location_id, 1),
                           entity_id, to_location_id)

\* _create_default_container_component
DefaultContainerSlots ==
    << [slot_id |-> "main", capacity_count |-> 999, accepted_tags |-> {},
        transparent |-> FALSE, items |-> <<>>] >>

\* builder.py lines 110-125: the child goes into the parent's container (a
\* default one if the parent has none) and into the parent's location
PlaceInParentContainer(W, entity_id, parent_id) ==
    LET Wc == IF HasComponent(W.ent[parent_id], "ContainerComponent") THEN W
              ELSE [W EXCEPT !.ent[parent_id].components = Append(@, "ContainerComponent"),
                             !.ent[parent_id].slots = DefaultContainerSlots]
        a == AddEntity(Wc.ent[parent_id].slots, entity_id, GetAllTags(Wc.ent[entity_id]))
        Wa == [Wc EXCEPT !.ent[parent_id].slots = a.slots]
        parent_loc == GetLocationOfEntity(Wa, parent_id)
    IN  IF parent_loc # None
            THEN CurrentMoveEntityBetweenLocations(Wa, entity_id, parent_loc)
        ELSE Wa

\* builder.py lines 90-130: second pass over the snapshots, in creation order
RECURSIVE BuildParents(_, _)
BuildParents(W, snapshots) ==
    IF snapshots = <<>> THEN W
    ELSE LET sn == Head(snapshots)
             parent_id == sn.parent_container
             W1 == IF parent_id = "" THEN W
                   ELSE IF IsLocation(parent_id)
                       THEN CurrentMoveEntityBetweenLocations(W, sn.instance_id, parent_id)
                   ELSE IF Registered(W, parent_id)
                       THEN PlaceInParentContainer(W, sn.instance_id, parent_id)
                   ELSE W
         IN  BuildParents(W1, Tail(snapshots))

RECURSIVE AllSnapshots(_, _)
AllSnapshots(bundle, i) ==
    IF i > Len(LocationOrder) THEN <<>>
    ELSE bundle.locations[LocationOrder[i]] \o AllSnapshots(bundle, i + 1)

\* build_world_state, passes 1 to 2.5 (the bundles here restore no task)
BuildWorldState(bundle) ==
    BuildParents(BuildLocations(EmptyWorld, bundle, 1), AllSnapshots(bundle, 1))

\* -------------------------------------------------------------------- state
\* ws: the WorldState. last: the most recent call through the executor
\* gateway: its effect kind, its context, the returned events and whether an
\* exception left it. calls: how many calls were made from outside.
\* ws: the world; last: the latest call to the executor and what came back;
\* calls: how many calls were made; hist: per task id, how often FinishTask
\* ran its completion effects and how many TaskFinished events were returned.
VARIABLES ws, last, calls, hist, mgr

vars == <<ws, last, calls, hist, mgr>>

\* manager.py lines 30 and 37-47: the manager's is_running flag and the call
\* of run() under way: where it is ("idle" when there is none, "loop" at the
\* top of the for loop), its argument, the iterations left, the steps it
\* started, the step during which stop() was called (0 for none) and the
\* events it gathered
NoRun ==
    [is_running |-> FALSE, at |-> "idle", max_ticks |-> 0, left |-> 0, steps |-> 0,
     stop_at |-> 0, all_events |-> <<>>]

\* mgr is what the last step() did: the entities registered when its
\* iteration started, how the provider behaved per entity, and the trace;
\* and the manager's run
NoStep == [snapshot |-> <<>>, behaviour |-> <<>>, trace |-> <<>>, run |-> NoRun]

NoCall == [op |-> "", ctx |-> ContextBase, events |-> <<>>, raised |-> FALSE]

IsErrorOnly(r) ==
    ~r.raised /\ Len(r.events) = 1 /\ r.events[1].type = "ExecutorError"

\* What is recorded of a call. A call refused with a single ExecutorError is
\* recorded by its kind and its message, whatever the context was.
Observed(effect, ctx, r) ==
    [op |-> effect.effect,
     ctx |-> IF IsErrorOnly(r) THEN ContextBase ELSE ctx,
     events |-> r.events, raised |-> r.raised]

\* How often a sequence holds x
RECURSIVE CountIn(_, _)
CountIn(s, x) ==
    IF s = <<>> THEN 0
    ELSE (IF Head(s) = x THEN 1 ELSE 0) + CountIn(Tail(s), x)

NoHistory == [ran |-> [t \in TaskIds |-> 0], finished |-> [t \in TaskIds |-> 0]]

\* The history after execute(W, effect, ctx) gave r: FinishTask runs the
\* completion effects of a task it finds in the index (lines 426-448), and
\* the caller gets the TaskFinished events of a call that returns
Recorded(h, W, effect, ctx, r) ==
    IF effect.effect = "FinishTask" /\ ctx.task_id \in W.tasks
        THEN [ran |-> [h.ran EXCEPT ![ctx.task_id] = @ + 1],
              finished |-> [t \in TaskIds |->
                  h.finished[t] + IF r.raised THEN 0
                                  ELSE CountIn(r.events, Ev("TaskFinished", t))]]
    ELSE h

\* One call executor.execute(ws, effect, context) from outside
Call(effect, ctx) ==
    LET r == Execute(ws, effect, ctx, {}) IN
    /\ r.ws.uuid <= MaxCreated
    /\ r.ws.task_uuid <= MaxTasks
    /\ ws' = r.ws
    /\ last' = Observed(effect, ctx, r)
    /\ calls' = calls + 1
    /\ hist' = Recorded(hist, ws, effect, ctx, r)
    /\ UNCHANGED mgr

\* ids and nodes the calls below are made with ("ghost" names nothing)
CallEntityIds == {"apple1", "bag1", "chest1", "ghost"}
CreateTemplates == {"apple_tpl", "missing_tpl"}
CreateInstanceIds == {"", "apple1"}
NodeIds == LocationIds \cup {"chest1", "bag1"}
ConsumeLists == { <<"apple1", "new1">>, <<"bag1", "ghost">> }

DoCreateEntity ==
    \E template \in CreateTemplates, instance_id \in CreateInstanceIds,
       dest_type \in {"container", "location"},
       target_id \in {"chest1", ""}, agent_id \in {"alice", ""} :
        /\ calls < MaxCalls
        /\ Call([EffectBase EXCEPT !.effect = "CreateEntity", !.template = template,
                                !.has_destination = TRUE,
                                !.destination_type = dest_type,
                                !.destination_target = "target",
                                !.instance_id = instance_id],
             [ContextBase EXCEPT !.target_id = target_id, !.agent_id = agent_id])

DoTransferEntity ==
    \E entity_id \in CallEntityIds, source_id \in NodeIds, destination_id \in NodeIds :
        /\ calls < MaxCalls
        /\ Call([EffectBase EXCEPT !.effect = "TransferEntity"],
             [ContextBase EXCEPT !.entity_id = entity_id, !.source_id = source_id,
                                 !.destination_id = destination_id])

DoDestroyEntity ==
    \E entity_id \in CallEntityIds :
        /\ calls < MaxCalls
        /\ Call([EffectBase EXCEPT !.effect = "DestroyEntity",
                                !.target = "entity_to_destroy"],
             [ContextBase EXCEPT !.entity_to_destroy_id = entity_id])

DoConsumeInputs ==
    \E ids \in ConsumeLists :
        /\ calls < MaxCalls
        /\ Call([EffectBase EXCEPT !.effect = "ConsumeInputs"],
             [ContextBase EXCEPT !.entities_for_consumption_ids = ids])

InitWorld ==
    /\ ws \in { BuildWorldState(b) : b \in Bundles }
    /\ last = NoCall
    /\ calls = 0
    /\ hist = NoHistory
    /\ mgr = NoStep

NextWorld ==
    \/ DoCreateEntity
    \/ DoTransferEntity
    \/ DoDestroyEntity
    \/ DoConsumeInputs

\* The entity, location and container effects applied to a built world
SpecWorld == InitWorld /\ [][NextWorld]_vars

\* ------------------------------------------------------- the task effects
\* what the calls below are made with: (recipe, target, agent) of CreateTask
\* ("none" is no recipe, "ghost" names nothing), the task ids ("t0" names
\* no task) and the agent of FinishTask
TaskRequests ==
    { <<"smash", "chest1", "">>, <<"sleep", "chest1", "alice">>,
      <<"sleep", "ghost", "">>, <<"none", "chest1", "">>,
      <<"smash", "chest1", "ghost">> }
TaskCallIds == {"t1", "t0"}
TaskAgents == {"alice", ""}

DoCreateTask ==
    \E request \in TaskRequests :
        /\ calls < MaxTaskCalls
        /\ Call([EffectBase EXCEPT !.effect = "CreateTask"],
                [ContextBase EXCEPT !.recipe = request[1], !.target_id = request[2],
                                    !.agent_id = request[3]])

DoProgressTask ==
    \E task_id \in TaskCallIds :
        /\ calls < MaxTaskCalls
        /\ Call([EffectBase EXCEPT !.effect = "ProgressTask", !.delta = 1],
                [ContextBase EXCEPT !.task_id = task_id])

DoUpdateTaskStatus ==
    \E task_id \in TaskCallIds :
        /\ calls < MaxTaskCalls
        /\ Call([EffectBase EXCEPT !.effect = "UpdateTaskStatus", !.task_id = task_id,
                                   !.status = "Paused"],
                ContextBase)

DoFinishTask ==
    \E task_id \in TaskCallIds, agent_id \in TaskAgents :
        /\ calls < MaxTaskCalls
        /\ Call([EffectBase EXCEPT !.effect = "FinishTask"],
                [ContextBase EXCEPT !.task_id = task_id, !.agent_id = agent_id])

\* DestroyEntity on an entity that may host a task
DoDestroyHost ==
    \E entity_id \in {"alice", "chest1"} :
        /\ calls < MaxTaskCalls
        /\ Call([EffectBase EXCEPT !.effect = "DestroyEntity",
                                   !.target = "entity_to_destroy"],
                [ContextBase EXCEPT !.entity_to_destroy_id = entity_id])

\* TransferEntity of the chest, listed in locA, into a chest slot
DoTransferChest ==
    \E destination_id \in {"chest1"} :
        /\ calls < MaxTaskCalls
        /\ Call([EffectBase EXCEPT !.effect = "TransferEntity"],
                [ContextBase EXCEPT !.entity_id = "chest1", !.source_id = "locA",
                                    !.destination_id = destination_id])

InitTasks ==
    /\ ws = BuildWorldState(BundleWorld)
    /\ last = NoCall
    /\ calls = 0
    /\ hist = NoHistory
    /\ mgr = NoStep

NextTasks ==
    \/ DoCreateTask
    \/ DoProgressTask
    \/ DoUpdateTaskStatus
    \/ DoFinishTask
    \/ DoDestroyHost
    \/ DoTransferChest

\* The task effects, with the effects that change what a task's completion
\* meets, applied to a built world
SpecTasks == InitTasks /\ [][NextTasks]_vars

\* ----------------------------------------------------------- the perception
\* PerceptionSystem._collect_contained_ids_in_location: the ids held by the
\* containers whose own location is the given one
CollectContainedIdsInLocation(W, location_id) ==
    UNION { Range(GetAllItemIds(W.ent[c])) :
              c \in { x \in Range(W.entities) :
                        GetLocationOfEntity(W, x) = location_id } }

\* the items of the transparent slots, in slot order
RECURSIVE TransparentItems(_)
TransparentItems(slots) ==
    IF slots = <<>> THEN <<>>
    ELSE (IF Head(slots).transparent THEN Head(slots).items ELSE <<>>)
            \o TransparentItems(Tail(slots))

\* the ids of the list that are not empty, not seen and not earlier in it
RECURSIVE Unseen(_, _)
Unseen(ids, seen) ==
    IF ids = <<>> THEN <<>>
    ELSE IF Head(ids) = None \/ Head(ids) \in seen THEN Unseen(Tail(ids), seen)
    ELSE <<Head(ids)>> \o Unseen(Tail(ids), seen \cup {Head(ids)})

\* the while loop of _expand_transparent_contents
RECURSIVE ExpandQueue(_, _, _, _)
ExpandQueue(W, queue, seen, visible) ==
    IF queue = <<>> THEN visible
    ELSE IF ~Registered(W, Head(queue))
            \/ ~HasComponent(W.ent[Head(queue)], "ContainerComponent")
        THEN ExpandQueue(W, Tail(queue), seen, Append(visible, Head(queue)))
    ELSE ExpandQueue(W,
            Tail(queue) \o Unseen(TransparentItems(W.ent[Head(queue)].slots), seen),
            seen \cup Range(TransparentItems(W.ent[Head(queue)].slots)),
            Append(visible, Head(queue)))

\* PerceptionSystem._expand_transparent_contents
ExpandTransparentContents(W, seed_visible_ids) ==
    ExpandQueue(W, Unseen(seed_visible_ids, {}), Range(seed_visible_ids), <<>>)

\* the entries of the list that are not in the set, in order
RECURSIVE Without(_, _)
Without(ids, hidden) ==
    IF ids = <<>> THEN <<>>
    ELSE IF Head(ids) \in hidden THEN Without(Tail(ids), hidden)
    ELSE <<Head(ids)>> \o Without(Tail(ids), hidden)

\* step 4 of perceive: id, name and tags of the visible ids that are entities
RECURSIVE Described(_, _)
Described(W, ids) ==
    IF ids = <<>> THEN <<>>
    ELSE IF ~Registered(W, Head(ids)) THEN Described(W, Tail(ids))
    ELSE << [id |-> Head(ids), name |-> W.ent[Head(ids)].entity_name,
             tags |-> GetAllTags(W.ent[Head(ids)])] >> \o Described(W, Tail(ids))

\* perceive, given the location of the agent and the ids found visible
Perceived(W, agent_id, location_id, visible_ids) ==
    [ agent_id |-> agent_id, location |-> location_id,
      entities |-> Described(W, visible_ids),
      hidden_entity_count |->
          IF Len(W.locations[location_id]) > Len(visible_ids)
          THEN Len(W.locations[location_id]) - Len(visible_ids) ELSE 0 ]

\* perceive, given the location of the agent
PerceiveAt(W, agent_id, location_id) ==
    IF location_id = None
        THEN [agent_id |-> agent_id, location |-> None, entities |-> <<>>]
    ELSE Perceived(W, agent_id, location_id,
            ExpandTransparentContents(W,
                Without(W.locations[location_id],
                        CollectContainedIdsInLocation(W, location_id))))

\* PerceptionSystem.perceive (without events and interactions)
Perceive(W, agent_id) == PerceiveAt(W, agent_id, GetLocationOfEntity(W, agent_id))

\* ---------------------------------------------------------------- the logs
\* WorldState.record_event: seq is the index in the log
RecordEvent(W, event, actor_id) ==
    [W EXCEPT !.event_log = Append(@,
        [ tick |-> W.total_ticks,
          location_id |-> IF actor_id # None THEN GetLocationOfEntity(W, actor_id)
                          ELSE None,
          actor_id |-> actor_id, event |-> event ])]

RECURSIVE RecordEvents(_, _, _)
RecordEvents(W, events, actor_id) ==
    IF events = <<>> THEN W
    ELSE RecordEvents(RecordEvent(W, Head(events), actor_id), Tail(events), actor_id)

\* The name snapshot of record_interaction_attempt: the id when no entity
NameOf(W, entity_id) ==
    IF entity_id # None /\ Registered(W, entity_id) THEN W.ent[entity_id].entity_name
    ELSE entity_id

\* record_interaction_attempt that keeps the failed attempts only
RecordFailedAttempt(W, actor_id, verb, target_id, status, reason, recipe_id) ==
    IF status = "success" THEN W
    ELSE [W EXCEPT !.interaction_seq = @ + 1,
                   !.interaction_log = Append(@,
            [ seq |-> W.interaction_seq + 1, tick |-> W.total_ticks,
              location_id |-> IF actor_id # None THEN GetLocationOfEntity(W, actor_id)
                              ELSE None,
              actor_id |-> actor_id, actor_name |-> NameOf(W, actor_id),
              verb |-> verb, target_id |-> target_id,
              target_name |-> NameOf(W, target_id),
              recipe_id |-> recipe_id, status |-> status, reason |-> reason ])]

\* WorldState.record_interaction_attempt: the counter _interaction_seq is
\* advanced and the entry appended
RecordInteractionAttempt(W, actor_id, verb, target_id, status, reason, recipe_id) ==
    [W EXCEPT !.interaction_seq = @ + 1, !.interaction_log = Append(@,
        [ seq |-> W.interaction_seq + 1, tick |-> W.total_ticks,
          location_id |-> IF actor_id # None THEN GetLocationOfEntity(W, actor_id)
                          ELSE None,
          actor_id |-> actor_id, actor_name |-> NameOf(W, actor_id),
          verb |-> verb, target_id |-> target_id,
          target_name |-> NameOf(W, target_id),
          recipe_id |-> recipe_id, status |-> status, reason |-> reason ])]

\* ------------------------------------------------------------- the matcher
\* A command: verb, target and parameters (a missing parameter is "")
Command(verb, target_id) ==
    [verb |-> verb, target_id |-> target_id, parameters |-> [k \in {"mode"} |-> ""]]

\* the matcher, were it not to look at parameter_match
RECURSIVE FindIgnoringParameters(_, _, _, _)
FindIgnoringParameters(verb, target, params, i) ==
    IF i > Len(RecipeOrder) THEN None
    ELSE IF /\ RecipeDb[RecipeOrder[i]].verb = verb
            /\ RecipeDb[RecipeOrder[i]].target_tags \subseteq GetAllTags(target)
        THEN RecipeOrder[i]
    ELSE FindIgnoringParameters(verb, target, params, i + 1)

\* InteractionEngine._find_matching_recipe: the id of the first recipe, in
\* declaration order, that fits; "" if none
RECURSIVE FindMatchingRecipe(_, _, _, _)
FindMatchingRecipe(verb, target, params, i) ==
    IF i > Len(RecipeOrder) THEN None
    ELSE LET recipe == RecipeDb[RecipeOrder[i]] IN
         IF /\ recipe.verb = verb
            /\ recipe.target_tags \subseteq GetAllTags(target)
            /\ (recipe.parameter_match # <<>>
                    => params[recipe.parameter_match[1]] = recipe.parameter_match[2])
            THEN RecipeOrder[i]
         ELSE FindMatchingRecipe(verb, target, params, i + 1)

\* process_command, were it to hand out the outputs along with CreateTask
ProcessCommandWithOutputs(W, agent_id, command) ==
    IF ~Registered(W, command.target_id)
        THEN [status |-> "failed", reason |-> "NO_TARGET", effects |-> <<>>,
              context |-> ContextBase]
    ELSE IF FindMatchingRecipe(command.verb, W.ent[command.target_id],
                               command.parameters, 1) = None
        THEN [status |-> "failed", reason |-> "NO_RECIPE", effects |-> <<>>,
              context |-> ContextBase]
    ELSE LET recipe == FindMatchingRecipe(command.verb, W.ent[command.target_id],
                                          command.parameters, 1)
         IN  [status |-> "success", reason |-> "",
              effects |-> (IF RecipeDb[recipe].required_progress # 0
                           THEN <<[EffectBase EXCEPT !.effect = "CreateTask"]>>
                           ELSE <<>>) \o RecipeDb[recipe].outputs,
              context |-> [ContextBase EXCEPT !.agent_id = agent_id,
                                              !.target_id = command.target_id,
                                              !.recipe = recipe]]

\* InteractionEngine.process_command: [status, reason, effects, context]
ProcessCommand(W, agent_id, command) ==
    IF ~Registered(W, command.target_id)
        THEN [status |-> "failed", reason |-> "NO_TARGET", effects |-> <<>>,
              context |-> ContextBase]
    ELSE LET recipe == FindMatchingRecipe(command.verb, W.ent[command.target_id],
                                          command.parameters, 1)
             context == [ContextBase EXCEPT !.agent_id = agent_id,
                                            !.target_id = command.target_id,
                                            !.recipe = recipe]
         IN  IF recipe = None
                THEN [status |-> "failed", reason |-> "NO_RECIPE", effects |-> <<>>,
                      context |-> ContextBase]
             ELSE IF RecipeDb[recipe].required_progress # 0
                THEN [status |-> "success", reason |-> "",
                      effects |-> <<[EffectBase EXCEPT !.effect = "CreateTask"]>>,
                      context |-> context]
             ELSE [status |-> "success", reason |-> "",
                   effects |-> RecipeDb[recipe].outputs, context |-> context]

\* ------------------------------------------------------------- the arbiter
\* resolve_enabled_controller_component: the name of the first enabled
\* controller of the entity, "" if none (or no entity)
RECURSIVE ResolveEnabledFrom(_, _)
ResolveEnabledFrom(e, i) ==
    IF i > Len(ControllerOrder) THEN None
    ELSE IF HasComponent(e, ControllerOrder[i]) /\ ControllerOrder[i] \in e.enabled
        THEN ControllerOrder[i]
    ELSE ResolveEnabledFrom(e, i + 1)

ResolveEnabledControllerComponent(W, entity_id) ==
    IF ~Registered(W, entity_id) THEN None ELSE ResolveEnabledFrom(W.ent[entity_id], 1)

NoInterrupt == [interrupt |-> FALSE, reason |-> "", rule_type |-> "", priority |-> 999999]

\* IdleRule.should_interrupt / LowNutritionRule.should_interrupt
ShouldInterrupt(W, agent_id, rule) ==
    IF rule.type = "Idle"
        THEN IF ~(Registered(W, agent_id)
                    /\ HasComponent(W.ent[agent_id], "WorkerComponent")
                    /\ W.ent[agent_id].current_task_id # None)
                THEN [interrupt |-> TRUE, reason |-> "Idle state", rule_type |-> "Idle",
                      priority |-> rule.priority]
             ELSE [interrupt |-> FALSE, reason |-> "", rule_type |-> "Idle",
                   priority |-> rule.priority]
    ELSE IF /\ Registered(W, agent_id)
            /\ HasComponent(W.ent[agent_id], "CreatureComponent")
            /\ W.ent[agent_id].current_nutrition < rule.threshold
        THEN [interrupt |-> TRUE, reason |-> "LowNutrition", rule_type |-> "LowNutrition",
              priority |-> rule.priority]
    ELSE [interrupt |-> FALSE, reason |-> "", rule_type |-> "LowNutrition",
          priority |-> rule.priority]

RECURSIVE FirstInterrupt(_, _, _)
FirstInterrupt(W, agent_id, ruleset) ==
    IF ruleset = <<>> THEN NoInterrupt
    ELSE LET result == ShouldInterrupt(W, agent_id, Head(ruleset)) IN
         IF result.interrupt THEN result
         ELSE FirstInterrupt(W, agent_id, Tail(ruleset))

\* DecisionArbiterComponent.check_if_interrupt_is_needed, of the arbiter
\* whose ruleset is given
CheckIfInterruptIsNeeded(W, agent_id, ruleset) ==
    IF ResolveEnabledControllerComponent(W, agent_id) = None THEN NoInterrupt
    ELSE FirstInterrupt(W, agent_id, ruleset)

\* ----------------------------------------------------------- the scheduler
\* WorldManager.ticks_per_step and the fuse of AgentControlComponent.per_tick
TicksPerStep == 1
MaxActionsInTick == 50

\* The table WorldManager.action_providers (provider ids it routes); the
\* default provider serves a controller whose provider_id is empty
ActionProviders == {}

\* One entry of what happened in a step, in order: a per_tick hook called
\* (entity, component), decide asked (entity, reason), a command handed to
\* the matcher (entity, verb, target, status) or an effect executed (for the
\* entity of the context, its kind)
Trace(kind, entity, what, id, status) ==
    [kind |-> kind, entity |-> entity, what |-> what, id |-> id, status |-> status]

\* The step so far: the world, the history, the events accumulator, the
\* trace, and whether an exception is on its way out of step()
StepState(W, h) ==
    [ws |-> W, hist |-> h, events |-> <<>>, trace |-> <<>>, raised |-> FALSE,
     ctx |-> ContextBase]

\* lines 95-100 of execute_wrapper, r being what execute gave: each returned
\* event is recorded under the context's agent and the accumulator extended;
\* an exception leaves with what was written. The context (a dict the
\* executor writes to) is handed back in ctx
\* What the trace keeps of an executed effect: the current_task_id of the
\* acting entity's Worker after it, and how the call ended
TaskHeld(W, agent_id) ==
    IF Registered(W, agent_id) THEN W.ent[agent_id].current_task_id ELSE None

Outcome(r) ==
    IF r.raised THEN "raised"
    ELSE IF \E i \in 1..Len(r.events) : r.events[i].type = "ExecutorError"
        THEN "ExecutorError"
    ELSE "ok"

Wrapped(S, effect, ctx, r) ==
    [ ws |-> IF r.raised THEN r.ws ELSE RecordEvents(r.ws, r.events, r.ctx.agent_id),
      hist |-> Recorded(S.hist, S.ws, effect, ctx, r),
      events |-> IF r.raised THEN S.events ELSE S.events \o r.events,
      trace |-> Append(S.trace, Trace("effect", ctx.agent_id, effect.effect,
                                      TaskHeld(r.ws, ctx.agent_id), Outcome(r))),
      raised |-> r.raised,
      ctx |-> r.ctx ]

\* execute_wrapper of WorldManager.step (lines 90-100)
ExecuteWrapper(S, effect, ctx) ==
    Wrapped(S, effect, ctx, Execute(S.ws, effect, ctx, {}))

\* effects executed in order under one context dict (agent_control.py, lines
\* 175-179); an exception ends it
RECURSIVE WrapAll(_, _, _)
WrapRest(S, effects) == WrapAll(S, effects, S.ctx)

WrapAll(S, effects, ctx) ==
    IF effects = <<>> \/ S.raised THEN S
    ELSE WrapRest(ExecuteWrapper(S, Head(effects), ctx), Tail(effects))

\* effects executed in order, each under a new copy of the context
\* (worker.py, lines 70-77)
RECURSIVE WrapEach(_, _, _)
WrapEach(S, effects, ctx) ==
    IF effects = <<>> \/ S.raised THEN S
    ELSE WrapEach(ExecuteWrapper(S, Head(effects), ctx), Tail(effects), ctx)

\* LinearProgressor.compute_progress_delta (no progress_contributors)
ComputeProgressDelta(W, agent_id, t, ticks) ==
    IF ~Registered(W, agent_id) THEN 0 ELSE t.base_progress_per_tick * ticks

\* stop_task, were it to leave the pointer alone
KeepTask(S, agent_id) == S

StopTask(S, agent_id) == [S EXCEPT !.ws.ent[agent_id].current_task_id = None]

\* worker.py, lines 80-86: after FinishTask
WorkerFinished(S, agent_id) == IF S.raised THEN S ELSE StopTask(S, agent_id)

\* worker.py, lines 79-86: after the tick effects
WorkerTicked(S, agent_id, task_id, full) ==
    IF S.raised \/ ~IsComplete(S.ws.task[task_id]) THEN S
    ELSE WorkerFinished(ExecuteWrapper(S, [EffectBase EXCEPT !.effect = "FinishTask"],
                                       full),
                        agent_id)

\* the Worker, were it to look at the progress before the tick effects
WorkerCheckedEarly(S, agent_id, task_id, full) ==
    IF S.raised \/ ~IsComplete(S.ws.task[task_id])
        THEN WrapEach(S, S.ws.task[task_id].tick_effects, full)
    ELSE WorkerTicked(WrapEach(S, S.ws.task[task_id].tick_effects, full),
                      agent_id, task_id, full)

\* worker.py, lines 70-77: after ProgressTask
WorkerProgressed(S, agent_id, task_id, full) ==
    WorkerTicked(WrapEach(S, S.ws.task[task_id].tick_effects, full),
                 agent_id, task_id, full)

\* WorkerComponent.per_tick of the Worker of the entity object agent_id
WorkerPerTick(S, agent_id) ==
    LET task_id == S.ws.ent[agent_id].current_task_id
        work == [ContextBase EXCEPT !.agent_id = agent_id, !.task_id = task_id]
        full == [work EXCEPT !.target_id = S.ws.task[task_id].target_entity_id]
        progress == [EffectBase EXCEPT !.effect = "ProgressTask", !.task_id = task_id,
                        !.delta = ComputeProgressDelta(S.ws, agent_id,
                                      S.ws.task[task_id], TicksPerStep)]
    IN  IF task_id = None THEN S
        ELSE IF task_id \notin S.ws.tasks THEN StopTask(S, agent_id)
        ELSE WorkerProgressed(ExecuteWrapper(S, progress, work), agent_id, task_id, full)

\* What decide does when asked: with three arguments and, after a TypeError,
\* with two ("ok", "TypeError", or "raise" for any other exception), and the
\* actions it returns, the first time and every later time of a tick. "stop"
\* is a decide during which stop() is called on the manager (manager.py line
\* 50) and which then answers as "ok" does
Behaviour(sig3, sig2, first, later) ==
    [sig3 |-> sig3, sig2 |-> sig2, first |-> first, later |-> later]

\* lines 128-132: [raised, actions] of the k-th decide of the tick
Decide(b, agent_id, k) ==
    LET given == IF k = 0 THEN b.first ELSE b.later
        actions == [i \in 1..Len(given) |->
                      IF given[i].target_id = "self"
                      THEN [given[i] EXCEPT !.target_id = agent_id] ELSE given[i]]
    IN
    IF b.sig3 \in {"ok", "stop"} THEN [raised |-> FALSE, actions |-> actions]
    ELSE IF b.sig3 = "TypeError" /\ b.sig2 = "ok"
        THEN [raised |-> FALSE, actions |-> actions]
    ELSE [raised |-> TRUE, actions |-> <<>>]

WorkerBusy(W, agent_id) ==
    /\ HasComponent(W.ent[agent_id], "WorkerComponent")
    /\ W.ent[agent_id].current_task_id # None

\* lines 107-199, the action loop as a machine: S is the step so far,
\* actions what is left of the list the for loop walks, n the actions executed
\* so far (actions_executed), k how often decide was asked, and at where
\* control is: at the top of the while loop, in the for loop, or out of both.
\* L is the record of these (with the agent, its arbiter's ruleset and the
\* provider's behaviour b).

\* lines 119-132: decide is asked for the reason of the interrupt; the trace
\* keeps the rule that fired and the Worker's current_task_id at the call
Asked(L, interrupt) ==
    [L.S EXCEPT !.trace =
        Append(@, Trace("decide", L.agent_id, interrupt.rule_type,
                        L.S.ws.ent[L.agent_id].current_task_id, ""))
        \o (IF L.b.sig3 = "stop" THEN <<Trace("stop", L.agent_id, "", "", "")>>
            ELSE <<>>)]

\* lines 108-135, given the arbiter's answer and what decide does
Arbitrated(L, interrupt, d) ==
    IF WorkerBusy(L.S.ws, L.agent_id) \/ ~interrupt.interrupt
        THEN [L EXCEPT !.at = "done"]
    ELSE IF d.raised
        THEN [L EXCEPT !.S = [Asked(L, interrupt) EXCEPT !.raised = TRUE], !.at = "done"]
    ELSE IF d.actions = <<>> THEN [L EXCEPT !.S = Asked(L, interrupt), !.at = "done"]
    ELSE [L EXCEPT !.S = Asked(L, interrupt), !.actions = d.actions, !.k = @ + 1,
                   !.at = "for"]

\* lines 108-135: one turn of the while loop, up to the for loop
WhileTurn(L) ==
    Arbitrated(L, CheckIfInterruptIsNeeded(L.S.ws, L.agent_id, L.ruleset),
               Decide(L.b, L.agent_id, L.k))

\* lines 139-173: the attempt is written to the interaction log
Attempted(S, agent_id, action, result) ==
    [S EXCEPT
        !.trace = Append(@, Trace("command", agent_id, action.verb, action.target_id,
                                  result.status)),
        !.ws = RecordInteractionAttempt(@, agent_id, action.verb, action.target_id,
                   IF result.status = "success" THEN "success" ELSE "failed",
                   result.reason, result.context.recipe)]

\* the loop without its ceiling on the actions of a tick
ExecutedUncounted(L, S) ==
    IF S.raised \/ WorkerBusy(S.ws, L.agent_id)
        THEN [L EXCEPT !.S = S, !.n = @ + 1, !.at = "done"]
    ELSE [L EXCEPT !.S = S, !.n = @ + 1, !.actions = Tail(@),
                   !.at = IF Tail(L.actions) = <<>> THEN "while" ELSE "for"]

\* the loop going on although the Worker holds a task
ExecutedWhileBusy(L, S) ==
    IF S.raised \/ L.n + 1 >= MaxActionsInTick
        THEN [L EXCEPT !.S = S, !.n = @ + 1, !.at = "done"]
    ELSE [L EXCEPT !.S = S, !.n = @ + 1, !.actions = Tail(@),
                   !.at = IF Tail(L.actions) = <<>> THEN "while" ELSE "for"]

\* lines 193-199, S being the step after the effects of the action
Executed(L, S) ==
    IF S.raised \/ WorkerBusy(S.ws, L.agent_id) \/ L.n + 1 >= MaxActionsInTick
        THEN [L EXCEPT !.S = S, !.n = @ + 1, !.at = "done"]
    ELSE [L EXCEPT !.S = S, !.n = @ + 1, !.actions = Tail(@),
                   !.at = IF Tail(L.actions) = <<>> THEN "while" ELSE "for"]

\* a rejected action skipped, the loop going on with the next one
MatchedOrSkipped(L, S, result) ==
    IF result.status # "success" THEN Executed(L, S)
    ELSE Executed(L, WrapAll(S, result.effects, result.context))

\* lines 143-179, S being the step after the attempt was logged
Matched(L, S, result) ==
    IF result.status # "success" THEN [L EXCEPT !.S = S, !.at = "done"]
    ELSE Executed(L, WrapAll(S, result.effects, result.context))

\* lines 139-199, given the matcher's result
Processed(L, result) ==
    Matched(L, Attempted(L.S, L.agent_id, Head(L.actions), result), result)

\* lines 137-199: one turn of the for loop
ForTurn(L) == Processed(L, ProcessCommand(L.S.ws, L.agent_id, Head(L.actions)))

\* the machine run for `turns` turns
RECURSIVE LoopTurns(_, _)
LoopTurns(L, turns) ==
    IF turns = 0 \/ L.at = "done" THEN L
    ELSE IF turns = 1 THEN (IF L.at = "while" THEN WhileTurn(L) ELSE ForTurn(L))
    ELSE LoopTurns(LoopTurns(L, turns \div 2), turns - (turns \div 2))

\* Where the machine stands when it is left: "done" when per_tick has come
\* out of the loop
LoopLeft(L) ==
    [L.S EXCEPT !.trace = Append(@, Trace("loop", L.agent_id, "left", "", L.at))]

\* The loop from its start to its end: the fuse ends it after at most
\* MaxActionsInTick turns of the for loop, each preceded by at most one turn
\* of the while loop that found an action
ActionLoop(S, agent_id, ruleset, b) ==
    LoopLeft(LoopTurns([S |-> S, agent_id |-> agent_id, ruleset |-> ruleset, b |-> b,
                        actions |-> <<>>, n |-> 0, k |-> 0, at |-> "while"],
                       2 * MaxActionsInTick))

\* lines 67-79: stop_task, and the TaskInterrupted event in the log
TaskStatusOf(W, task_id) ==
    IF task_id \in W.tasks THEN W.task[task_id].task_status ELSE "gone"

Stopped(S, agent_id, task_id) ==
    [S EXCEPT !.ws = RecordEvent(StopTask(S, agent_id).ws,
                                 Ev("TaskInterrupted", task_id), agent_id),
              !.trace = Append(@, Trace("interrupt", agent_id,
                                        StopTask(S, agent_id).ws.ent[agent_id].current_task_id,
                                        task_id, TaskStatusOf(S.ws, task_id)))]

\* the interrupt stopping the Worker without pausing the task
InterruptCurrentTaskUnpaused(S, agent_id) ==
    IF ~WorkerBusy(S.ws, agent_id) THEN S
    ELSE Stopped(S, agent_id, S.ws.ent[agent_id].current_task_id)

\* lines 49-79: an interrupt takes the current task from the Worker
InterruptCurrentTask(S, agent_id) ==
    LET task_id == S.ws.ent[agent_id].current_task_id
        paused == [EffectBase EXCEPT !.effect = "UpdateTaskStatus",
                                     !.task_id = task_id, !.status = "Paused"]
        work == [ContextBase EXCEPT !.agent_id = agent_id, !.task_id = task_id]
    IN  IF ~WorkerBusy(S.ws, agent_id) THEN S
        ELSE Stopped(IF task_id \in S.ws.tasks THEN ExecuteWrapper(S, paused, work)
                     ELSE S,
                     agent_id, task_id)

\* lines 81-107: the provider is looked up, and the loop entered
Acting(S, agent_id, b) ==
    IF /\ S.ws.ent[agent_id].provider_id # ""
       /\ S.ws.ent[agent_id].provider_id \notin ActionProviders
        THEN S
    ELSE ActionLoop(S, agent_id, S.ws.ent[agent_id].rules, b)

\* lines 34-79, given the arbiter's answer
Interrupted(S, agent_id, name, b, interrupt) ==
    IF \/ name \notin S.ws.ent[agent_id].enabled
       \/ ~Registered(S.ws, agent_id)
       \/ ~HasComponent(S.ws.ent[agent_id], "DecisionArbiterComponent")
       \/ ~interrupt.interrupt
        THEN S
    ELSE Acting(InterruptCurrentTask(S, agent_id), agent_id, b)

\* per_tick without its guards: the actions the provider would return are
\* processed before the controller and the arbiter are looked at
AgentControlPerTickUnguarded(S, agent_id, name, b) ==
    LoopLeft(LoopTurns([S |-> S, agent_id |-> agent_id,
                        ruleset |-> S.ws.ent[agent_id].rules, b |-> b,
                        actions |-> Decide(b, agent_id, 0).actions, n |-> 0, k |-> 1,
                        at |-> IF Decide(b, agent_id, 0).actions = <<>>
                               THEN "done" ELSE "for"],
                       2 * MaxActionsInTick))

\* AgentControlComponent.per_tick of the controller `name` of the entity
\* object agent_id, the provider behaving as b
AgentControlPerTick(S, agent_id, name, b) ==
    Interrupted(S, agent_id, name, b,
                CheckIfInterruptIsNeeded(S.ws, agent_id, S.ws.ent[agent_id].rules))

\* Which per_tick a component has: the classes with a per_tick method
HookOf(name) ==
    IF name \in {"AgentControlComponent", "LLMControlComponent"} THEN "control"
    ELSE IF name = "WorkerComponent" THEN "worker"
    ELSE IF name \in {"TagComponent", "CreatureComponent", "ContainerComponent",
                      "AgentComponent", "PlayerControlComponent",
                      "LogicControlComponent"} THEN "none"
    ELSE "pass"

\* line 110: per_tick of the component `name` of the entity
Called(S, entity_id, name, b) ==
    IF HookOf(name) = "control" THEN AgentControlPerTick(S, entity_id, name, b[entity_id])
    ELSE IF HookOf(name) = "worker" THEN WorkerPerTick(S, entity_id)
    ELSE S

\* lines 107-110: the hooks of one entity, over the components it has when
\* its turn comes
RECURSIVE TickComponents(_, _, _, _)
TickComponents(S, entity_id, components, b) ==
    IF components = <<>> \/ S.raised THEN S
    ELSE IF HookOf(Head(components)) = "none"
        THEN TickComponents(S, entity_id, Tail(components), b)
    ELSE TickComponents(
            Called([S EXCEPT !.trace = Append(@, Trace("hook", entity_id,
                                                       Head(components), "", ""))],
                   entity_id, Head(components), b),
            entity_id, Tail(components), b)

\* the iteration, were it to end once stop() has been called
RECURSIVE TickEntitiesUntilStopped(_, _, _)
TickEntitiesUntilStopped(S, ids, b) ==
    IF ids = <<>> \/ S.raised THEN S
    ELSE IF \E i \in 1..Len(S.trace) : S.trace[i].kind = "stop" THEN S
    ELSE TickEntitiesUntilStopped(
            TickComponents(S, Head(ids), S.ws.ent[Head(ids)].components, b),
            Tail(ids), b)

\* lines 106-110: the entities registered when the iteration starts, in order
RECURSIVE TickEntities(_, _, _)
TickEntities(S, ids, b) ==
    IF ids = <<>> \/ S.raised THEN S
    ELSE TickEntities(TickComponents(S, Head(ids), S.ws.ent[Head(ids)].components, b),
                      Tail(ids), b)

\* WorldManager.step, the provider behaving as b[entity] for each entity
Step(W, h, b) ==
    LET W1 == [W EXCEPT !.total_ticks = @ + TicksPerStep]
        tick == Ev("TickAdvanced", "")
        S0 == [StepState(RecordEvent(W1, tick, None), h) EXCEPT !.events = <<tick>>]
    IN  TickEntities(S0, W1.entities, b)

\* two agents and an apple in one location
BundleSim ==
    [ locations |->
        [ locA |-> << Snapshot("agent_tpl", "alice", ""),
                      Snapshot("agent_tpl", "bob", ""),
                      Snapshot("apple_tpl", "apple1", "") >>,
          locB |-> <<>> ],
      tasks |-> <<>> ]

\* a hungry agent, an agent whose controller is disabled, an agent whose Idle
\* rule comes first, and an apple
BundleHungry ==
    [ locations |->
        [ locA |-> << Snapshot("hungry_tpl", "alice", ""),
                      Snapshot("dormant_tpl", "bob", ""),
                      Snapshot("contrary_tpl", "carol", ""),
                      Snapshot("apple_tpl", "apple1", "") >>,
          locB |-> <<>> ],
      tasks |-> <<>> ]

SimBundles == {BundleSim, BundleHungry}

\* How a provider may behave towards one agent during one step ("self" in a
\* command stands for the agent asked): it returns nothing; it raises; it
\* takes two arguments only; it takes neither three nor two; it eats the
\* apple; it goes to sleep; it tries a verb no recipe has, then to eat; it
\* waits, again and again; it pokes the apple, then eats it; it goes to
\* sleep, then to eat; it takes a nap
Behaviours ==
    { Behaviour("ok", "ok", <<>>, <<>>),
      Behaviour("raise", "ok", <<>>, <<>>),
      Behaviour("TypeError", "ok", <<Command("Eat", "apple1")>>, <<>>),
      Behaviour("TypeError", "TypeError", <<>>, <<>>),
      Behaviour("ok", "ok", <<Command("Eat", "apple1")>>, <<>>),
      Behaviour("ok", "ok", <<Command("Sleep", "self")>>, <<>>),
      Behaviour("ok", "ok", <<Command("Dance", "apple1"), Command("Eat", "apple1")>>,
                <<>>),
      Behaviour("ok", "ok", <<Command("Wait", "self")>>, <<Command("Wait", "self")>>),
      Behaviour("ok", "ok", <<Command("Poke", "apple1"), Command("Eat", "apple1")>>,
                <<>>),
      Behaviour("ok", "ok", <<Command("Sleep", "self"), Command("Eat", "apple1")>>,
                <<>>),
      Behaviour("ok", "ok", <<Command("Nap", "self")>>, <<>>) }

\* what the provider does towards the second agent: nothing, eat, sleep, nap
OtherBehaviours ==
    { b \in Behaviours : b.sig3 = "ok" /\ b.later = <<>> /\ Len(b.first) <= 1 }

\* One call of WorldManager.step()
DoStep ==
    \E first \in Behaviours, other \in OtherBehaviours :
        LET b == [x \in EntityIds |-> IF x = "alice" THEN first ELSE other]
            S == Step(ws, hist, b)
        IN  /\ ws.total_ticks < MaxTicks
            /\ ws' = S.ws
            /\ hist' = S.hist
            /\ last' = [op |-> "step", ctx |-> ContextBase, events |-> S.events,
                        raised |-> S.raised]
            /\ mgr' = [snapshot |-> ws.entities, behaviour |-> b, trace |-> S.trace,
                        run |-> mgr.run]
            /\ UNCHANGED calls

InitSim ==
    /\ \E bundle \in SimBundles : ws = BuildWorldState(bundle)
    /\ last = NoCall
    /\ calls = 0
    /\ hist = NoHistory
    /\ mgr = NoStep

NextSim == DoStep

\* The world manager stepping a built world, the provider behaving freely
SpecSim == InitSim /\ [][NextSim]_vars

\* ---------------------------------------------------------------- the hunt
\* an agent, an agent that can be eaten, declared after it, and an apple
BundlePrey ==
    [ locations |->
        [ locA |-> << Snapshot("agent_tpl", "alice", ""),
                      Snapshot("prey_tpl", "bob", ""),
                      Snapshot("apple_tpl", "apple1", "") >>,
          locB |-> <<>> ],
      tasks |-> <<>> ]

\* what the provider does towards the first agent: nothing, eat the second
\* agent, sleep, nap, eat the apple
HuntBehaviours ==
    { Behaviour("ok", "ok", <<>>, <<>>),
      Behaviour("ok", "ok", <<Command("Eat", "bob")>>, <<>>),
      Behaviour("ok", "ok", <<Command("Sleep", "self")>>, <<>>),
      Behaviour("ok", "ok", <<Command("Nap", "self")>>, <<>>),
      Behaviour("ok", "ok", <<Command("Eat", "apple1")>>, <<>>) }

\* One call of WorldManager.step() in that world
DoHunt ==
    \E first \in HuntBehaviours, other \in OtherBehaviours :
        LET b == [x \in EntityIds |-> IF x = "alice" THEN first ELSE other]
            S == Step(ws, hist, b)
        IN  /\ ws.total_ticks < MaxTicks
            /\ ws' = S.ws
            /\ hist' = S.hist
            /\ last' = [op |-> "step", ctx |-> ContextBase, events |-> S.events,
                        raised |-> S.raised]
            /\ mgr' = [snapshot |-> ws.entities, behaviour |-> b, trace |-> S.trace,
                        run |-> mgr.run]
            /\ UNCHANGED calls

InitHunt ==
    /\ ws = BuildWorldState(BundlePrey)
    /\ last = NoCall
    /\ calls = 0
    /\ hist = NoHistory
    /\ mgr = NoStep

NextHunt == DoHunt

\* The world manager stepping a world where an agent can be destroyed
SpecHunt == InitHunt /\ [][NextHunt]_vars

\* ---------------------------------------------------------------- the work
\* One call of WorldManager.step() with a provider that returns no action
DoTick ==
    /\ ws.total_ticks < MaxTicks
    /\ ws' = Step(ws, hist, [x \in EntityIds |-> Behaviour("ok", "ok", <<>>, <<>>)]).ws
    /\ hist' = Step(ws, hist, [x \in EntityIds |-> Behaviour("ok", "ok", <<>>, <<>>)]).hist
    /\ last' = [op |-> "step", ctx |-> ContextBase,
                events |-> Step(ws, hist, [x \in EntityIds |->
                                    Behaviour("ok", "ok", <<>>, <<>>)]).events,
                raised |-> Step(ws, hist, [x \in EntityIds |->
                                    Behaviour("ok", "ok", <<>>, <<>>)]).raised]
    /\ mgr' = [snapshot |-> ws.entities,
               behaviour |-> [x \in EntityIds |-> Behaviour("ok", "ok", <<>>, <<>>)],
               trace |-> Step(ws, hist, [x \in EntityIds |->
                                   Behaviour("ok", "ok", <<>>, <<>>)]).trace,
               run |-> mgr.run]
    /\ UNCHANGED calls

NextWork ==
    \/ DoCreateTask
    \/ DoProgressTask
    \/ DoFinishTask
    \/ DoTick

\* Tasks created, advanced and finished through the executor, between steps
\* of the world manager
SpecWork == InitTasks /\ [][NextWork]_vars

\* ------------------------------------------------------- the other effects
\* effects handed to execute beside the ones above: ModifyProperty on a
\* component the entity has or not, typed or kept as a dict, and on a
\* property it has or not; AddCondition; no tag; a tag execute does not know
OtherEffects ==
    { [EffectBase EXCEPT !.effect = "ModifyProperty", !.target = "target",
                         !.component = component, !.property = property,
                         !.change = 5] :
        component \in {"CreatureComponent", "ConditionComponent", "TagComponent",
                       "MoodComponent"},
        property \in {"current_nutrition", "severity", "conditions", "mood"} }
    \cup { [EffectBase EXCEPT !.effect = "AddCondition", !.target = "target",
                              !.condition_id = "wet"],
           [EffectBase EXCEPT !.effect = ""],
           [EffectBase EXCEPT !.effect = "Teleport"] }

\* One call of execute with one of these effects
DoExecute ==
    \E effect \in OtherEffects, target_id \in {"alice", "apple1", "ghost"} :
        /\ calls < MaxCalls
        /\ Call(effect, [ContextBase EXCEPT !.target_id = target_id,
                                            !.agent_id = "alice"])

NextEffects == DoExecute

\* The executor asked for these effects on a built world
SpecEffects == InitWorld /\ [][NextEffects]_vars

\* --------------------------------------------------------------- the build
\* the bundles built below: a chest, a bag and an apple declared in any
\* order, each in either location, each with no parent_container or with
\* one of the other two as parent_container
BuildIds == {"chest1", "bag1", "apple1"}
BuildOrders ==
    { << o[1], o[2], o[3] >> : o \in { f \in [1..3 -> BuildIds] :
                                        \A i, j \in 1..3 : f[i] = f[j] => i = j } }
TemplateOf(id) ==
    CASE id = "chest1" -> "chest_tpl" [] id = "bag1" -> "bag_tpl"
      [] OTHER -> "apple_tpl"
BuildBundles ==
    { [ locations |->
          [ l \in LocationIds |->
              SelectSeq([i \in 1..3 |-> Snapshot(TemplateOf(order[i]), order[i],
                                                 parent[order[i]])],
                        LAMBDA sn : place[sn.instance_id] = l) ],
        tasks |-> <<>> ] :
        order \in BuildOrders, place \in [BuildIds -> LocationIds],
        parent \in { f \in [BuildIds -> BuildIds \cup {""}] :
                        \A x \in BuildIds : f[x] # x } }

\* One call of build_world_state: a new world, built from the bundle
DoBuild ==
    \E bundle \in BuildBundles :
        /\ ws' = BuildWorldState(bundle)
        /\ last' = [op |-> "build", ctx |-> ContextBase, events |-> <<>>,
                    raised |-> FALSE, bundle |-> bundle]
        /\ UNCHANGED <<calls, hist, mgr>>

NextBuild == DoBuild

\* Worlds built from bundles
SpecBuild == InitWorld /\ [][NextBuild]_vars

\* ------------------------------------------------------------ the commands
\* the commands asked of the matcher: verbs with and without a recipe, targets
\* registered or not, the parameter absent, fitting or not
MatchCommands ==
    { [verb |-> verb, target_id |-> target_id, parameters |-> [k \in {"mode"} |-> mode]] :
        verb \in {"Eat", "Sleep", "Smash", "Wait", "Poke", "Dance"},
        target_id \in {"alice", "apple1", "chest1", "bag1", "ghost"},
        mode \in {"", "nibble", "gulp"} }

\* what is recorded of process_command(ws, agent_id, command)
CommandProcessed(agent_id, command, result) ==
    [op |-> "process_command", ctx |-> result.context, events |-> <<>>,
     raised |-> FALSE, agent_id |-> agent_id, command |-> command,
     status |-> result.status, reason |-> result.reason, effects |-> result.effects]

\* One call of InteractionEngine.process_command
DoProcessCommand ==
    \E agent_id \in {"alice", "bob"}, command \in MatchCommands :
        /\ last' = CommandProcessed(agent_id, command, ProcessCommand(ws, agent_id, command))
        /\ UNCHANGED <<ws, calls, hist, mgr>>

NextMatch == DoProcessCommand

\* The matcher asked about a built world
SpecMatch == InitWorld /\ [][NextMatch]_vars

\* ---------------------------------------------------------------- the run
MaxRunCalls == 3

\* whether stop() was called during the step that left the trace
StopIssued(trace) == \E i \in 1..Len(trace) : trace[i].kind = "stop"

\* what the provider does towards the first agent during a run: nothing, a
\* failure, a stop() and nothing, a stop() and a meal, a sleep
RunBehaviours ==
    { Behaviour("ok", "ok", <<>>, <<>>),
      Behaviour("raise", "ok", <<>>, <<>>),
      Behaviour("stop", "ok", <<>>, <<>>),
      Behaviour("stop", "ok", <<Command("Eat", "apple1")>>, <<>>),
      Behaviour("ok", "ok", <<Command("Sleep", "self")>>, <<>>) }

\* manager.py lines 37-42: run(max_ticks) is called and reaches its loop
DoRun ==
    \E max_ticks \in 0..(MaxTicks - ws.total_ticks) :
        /\ mgr.run.at = "idle"
        /\ calls < MaxRunCalls
        /\ calls' = calls + 1
        /\ mgr' = [mgr EXCEPT !.run = [is_running |-> TRUE, at |-> "loop",
                                       max_ticks |-> max_ticks, left |-> max_ticks,
                                       steps |-> 0, stop_at |-> 0,
                                       all_events |-> <<>>]]
        /\ last' = [op |-> "run", ctx |-> ContextBase, events |-> <<>>,
                    raised |-> FALSE]
        /\ UNCHANGED <<ws, hist>>

\* lines 43-47, the loop left: run() returns what it gathered
RunReturned ==
    /\ mgr' = [mgr EXCEPT !.run.at = "idle"]
    /\ last' = [op |-> "returned", ctx |-> ContextBase,
                events |-> mgr.run.all_events, raised |-> FALSE]
    /\ UNCHANGED <<ws, hist, calls>>

\* lines 43-46, one step of the loop; an exception out of step() leaves run()
RunStepped(b, S) ==
    /\ ws' = S.ws
    /\ hist' = S.hist
    /\ mgr' = [snapshot |-> ws.entities, behaviour |-> b, trace |-> S.trace,
               run |-> [mgr.run EXCEPT
                   !.is_running = @ /\ ~StopIssued(S.trace),
                   !.at = IF S.raised THEN "idle" ELSE "loop",
                   !.left = @ - 1,
                   !.steps = @ + 1,
                   !.stop_at = IF StopIssued(S.trace) THEN mgr.run.steps + 1 ELSE @,
                   !.all_events = IF S.raised THEN @ ELSE @ \o S.events]]
    /\ last' = [op |-> "step", ctx |-> ContextBase, events |-> S.events,
                raised |-> S.raised]
    /\ UNCHANGED calls

\* manager.py lines 43-47: one turn of the for loop of run()
DoRunTurn ==
    /\ mgr.run.at = "loop"
    /\ IF mgr.run.left = 0 \/ ~mgr.run.is_running THEN RunReturned
       ELSE \E first \in RunBehaviours :
               RunStepped([x \in EntityIds |->
                              IF x = "alice" THEN first
                              ELSE Behaviour("ok", "ok", <<>>, <<>>)],
                          Step(ws, hist, [x \in EntityIds |->
                              IF x = "alice" THEN first
                              ELSE Behaviour("ok", "ok", <<>>, <<>>)]))

\* manager.py lines 49-50: stop() called between two runs
DoStop ==
    /\ mgr.run.at = "idle"
    /\ calls < MaxRunCalls
    /\ calls' = calls + 1
    /\ mgr' = [mgr EXCEPT !.run.is_running = FALSE]
    /\ last' = [op |-> "stop", ctx |-> ContextBase, events |-> <<>>,
                raised |-> FALSE]
    /\ UNCHANGED <<ws, hist>>

NextRun == DoRun \/ DoRunTurn \/ DoStop

\* The world manager running a built world, the provider behaving freely
SpecRun == InitSim /\ [][NextRun]_vars

\* ------------------------------------------------------- claims: vocabulary
\* The locations whose membership list holds the id
LocationsListing(W, entity_id) ==
    { l \in LocationIds : InSeq(entity_id, W.locations[l]) }

\* The (container, slot) pairs whose item list holds the id
SlotsHolding(W, entity_id) ==
    { p \in Range(W.entities) \X (1..2) :
        /\ HasComponent(W.ent[p[1]], "ContainerComponent")
        /\ p[2] <= Len(W.ent[p[1]].slots)
        /\ InSeq(entity_id, W.ent[p[1]].slots[p[2]].items) }

\* The registered containers holding the id
Holders(W, entity_id) == { p[1] : p \in SlotsHolding(W, entity_id) }

\* The ids some registered container holds
HeldIds(W) ==
    UNION { Range(GetAllItemIds(W.ent[c])) : c \in Range(W.entities) }

\* Every id the world mentions
MentionedIds(W) ==
    Range(W.entities) \cup HeldIds(W)
        \cup UNION { Range(W.locations[l]) : l \in LocationIds }

\* The ids transitively contained in the entity (as a set, cycles included)
RECURSIVE ContainedFrom(_, _, _)
ContainedFrom(W, frontier, seen) ==
    LET next == UNION { Range(GetAllItemIds(W.ent[c])) :
                          c \in frontier \cap Range(W.entities) } \ seen
    IN  IF next = {} THEN seen
        ELSE ContainedFrom(W, next, seen \cup next)

ContainedIn(W, entity_id) == ContainedFrom(W, {entity_id}, {})

\* The id is in no location list, no slot of a registered container and not
\* in the entity table
NoTraceOf(W, entity_id) ==
    /\ LocationsListing(W, entity_id) = {}
    /\ entity_id \notin HeldIds(W)
    /\ ~Registered(W, entity_id)

\* The last call returned exactly the event Ev(type, id)
Returned(type, id) == ~last.raised /\ last.events = <<Ev(type, id)>>

\* ----------------------------------------------------------------- claim C1
\* C1: after any sequence of CreateEntity, TransferEntity, DestroyEntity and
\* ConsumeInputs on a built world, every entity id is in the membership list
\* of at most one location.
C1_AtMostOneLocation ==
    \A e \in MentionedIds(ws) : Cardinality(LocationsListing(ws, e)) <= 1

\* ----------------------------------------------------------------- claim C2
\* C2: every entity id is in at most one container slot across all containers
\* of the world.
C2_AtMostOneSlot ==
    \A e \in MentionedIds(ws) : Cardinality(SlotsHolding(ws, e)) <= 1

\* ----------------------------------------------------------------- claim C3
\* C3 as stated: no entity id is at once a member of a location's membership
\* list and an item of a container slot.
C3_NeverListedAndHeld ==
    \A e \in MentionedIds(ws) :
        ~(LocationsListing(ws, e) # {} /\ SlotsHolding(ws, e) # {})

\* C3 as the code has it (double indexing): an entity that the builder,
\* CreateEntity or TransferEntity has just put into a container slot is also
\* listed in the location the container resolves to.
ListedWhereHeld(W, entity_id) ==
    \A p \in Holders(W, entity_id) :
        GetLocationOfEntity(W, p) # None
            => InSeq(entity_id, W.locations[GetLocationOfEntity(W, p)])

C3_DoubleIndexed ==
    /\ calls = 0 => \A e \in HeldIds(ws) : ListedWhereHeld(ws, e)
    /\ \A e \in Range(ws.entities) :
        (last.op = "CreateEntity" /\ Returned("EntityCreated", e))
            => ListedWhereHeld(ws, e)
    /\ \A e \in Range(ws.entities) :
        (/\ last.op = "TransferEntity" /\ Returned("EntityTransferred", e)
         /\ NodeKind(ws, last.ctx.destination_id) = "entity")
            => /\ last.ctx.destination_id \in Holders(ws, e)
               /\ GetLocationOfEntity(ws, last.ctx.destination_id) # None
                    => InSeq(e, ws.locations[
                              GetLocationOfEntity(ws, last.ctx.destination_id)])

\* a created entity sits in a chest slot and in the chest's location list
C3_Witness ==
    /\ last.op = "CreateEntity" /\ Returned("EntityCreated", "new1")
    /\ "chest1" \in Holders(ws, "new1")
    /\ GetLocationOfEntity(ws, "chest1") # None
    /\ LocationsListing(ws, "new1") = {GetLocationOfEntity(ws, "chest1")}

\* ----------------------------------------------------------------- claim C4
\* C4: after DestroyEntity on a resolvable entity E, neither E nor any entity
\* transitively contained in E is in a location list, a container slot or
\* the entity table.
C4_DestroyLeavesNoTrace ==
    [][ (last'.op = "DestroyEntity" /\ calls' = calls + 1
            /\ Registered(ws, last'.ctx.entity_to_destroy_id))
        => \A d \in {last'.ctx.entity_to_destroy_id}
                    \cup ContainedIn(ws, last'.ctx.entity_to_destroy_id) :
              NoTraceOf(ws', d) ]_vars

\* ----------------------------------------------------------------- claim C5
\* C5: when TransferEntity moves a container entity E from a source in
\* location A to a destination in a different location B, afterwards E and
\* every entity transitively contained in E is in B's list and none is in A's.
C5_TransferCascades ==
    [][ LET e == last'.ctx.entity_id
            A == NodeLocation(ws, last'.ctx.source_id)
            B == NodeLocation(ws, last'.ctx.destination_id)
        IN  (/\ calls' = calls + 1
             /\ last'.op = "TransferEntity"
             /\ ~last'.raised
             /\ last'.events = <<Ev("EntityTransferred", e)>>
             /\ HasComponent(ws.ent[e], "ContainerComponent")
             /\ A # None /\ B # None /\ A # B)
            => \A d \in {e} \cup ContainedIn(ws', e) :
                  /\ InSeq(d, ws'.locations[B])
                  /\ ~InSeq(d, ws'.locations[A]) ]_vars

\* the chest went from locA to locB with the bag in it and the apple in the bag
C5_Witness ==
    /\ last.op = "TransferEntity" /\ Returned("EntityTransferred", "chest1")
    /\ last.ctx.source_id = "locA" /\ last.ctx.destination_id = "locB"
    /\ ContainedIn(ws, "chest1") = {"bag1", "apple1"}
    /\ {"chest1", "bag1", "apple1"} \subseteq Range(ws.locations["locB"])
    /\ calls = 1

\* The last call returned, and the event Ev(type, id) is in its list
Emitted(type, id) == ~last.raised /\ InSeq(Ev(type, id), last.events)

\* The registered entities whose task host holds the task
HostsOf(W, task_id) ==
    { e \in Range(W.entities) : task_id \in W.ent[e].host_tasks }

\* ----------------------------------------------------------------- claim C6
\* C6: after FinishTask for task T has returned TaskFinished, T is in neither
\* the global task index nor any TaskHostComponent, whichever entity hosts T.
C6_FinishedTaskIsGone ==
    \A t \in TaskIds :
        (last.op = "FinishTask" /\ Emitted("TaskFinished", t))
            => t \notin ws.tasks /\ HostsOf(ws, t) = {}

\* ----------------------------------------------------------------- claim C7
\* C7: the completion effects of a task are executed at most once and at most
\* one TaskFinished event is emitted per task id; FinishTask on an id that is
\* already finished returns ExecutorError and executes no completion effect.
C7_CompletionAtMostOnce ==
    \A t \in TaskIds :
        /\ hist.ran[t] <= 1
        /\ hist.finished[t] <= 1
        /\ (last.op = "FinishTask" /\ Emitted("TaskFinished", t))
                => hist.ran[t] = 1

\* ----------------------------------------------------------------- claim C8
\* C8: the global task index and the host tables mirror each other: every
\* task in the index is held by exactly one host and every task held by a
\* host is in the index, also after a host is destroyed or a task finished.
C8_IndexMirrorsHosts ==
    /\ \A t \in ws.tasks : Cardinality(HostsOf(ws, t)) = 1
    /\ \A e \in Range(ws.entities) : ws.ent[e].host_tasks \subseteq ws.tasks

\* ----------------------------------------------------------------- claim C9
\* C9: for every effect kind and every context, execute returns a list of
\* events and never raises.
C9_ExecuteNeverRaises == ~last.raised

\* The entities whose provider raised out of decide in the last step
DecideRaisedFor ==
    { x \in Range(mgr.snapshot) :
        /\ \E i \in 1..Len(mgr.trace) :
               mgr.trace[i].kind = "decide" /\ mgr.trace[i].entity = x
        /\ Decide(mgr.behaviour[x], x, 0).raised }

\* The entities of the last step that had a per_tick hook called
Hooked == { mgr.trace[i].entity : i \in { j \in 1..Len(mgr.trace) :
                                            mgr.trace[j].kind = "hook" } }

\* The entities of the last step that carry a component with a per_tick hook
WithHooks ==
    { x \in Range(mgr.snapshot) :
        \E i \in 1..Len(ws.ent[x].components) :
            HookOf(ws.ent[x].components[i]) # "none" }

\* C10: when the provider's decide raises while an actor is acting, step()
\* still returns, and every entity of the iteration that carries hooks, the
\* ones after the actor included, gets them called.
C10_DecideFailureStaysInTick ==
    (last.op = "step" /\ DecideRaisedFor # {}) =>
        /\ ~last.raised
        /\ WithHooks \subseteq Hooked

\* ---------------------------------------------------------------- claim C11
\* The entities of the last step none of whose controllers is enabled
Uncontrolled ==
    { x \in Range(mgr.snapshot) \cap Range(ws.entities) :
        ResolveEnabledControllerComponent(ws, x) = None }

\* The entries of the given kinds the last step's trace has for the entity
TraceIndices(entity, kinds) ==
    { i \in 1..Len(mgr.trace) :
        mgr.trace[i].entity = entity /\ mgr.trace[i].kind \in kinds }

\* C11: an entity with no enabled controller never has the provider asked
\* for actions and never has a command processed for it, whatever its
\* interrupt rules report.
C11_NoControllerNoAction ==
    \A x \in Uncontrolled : TraceIndices(x, {"decide", "command"}) = {}

\* a step called the control hook of an entity whose controller is disabled,
\* whose rules fire and for which the provider has actions
C11_Witness ==
    /\ last.op = "step"
    /\ \E x \in Uncontrolled :
          /\ \E i \in TraceIndices(x, {"hook"}) :
                 mgr.trace[i].what = "AgentControlComponent"
          /\ FirstInterrupt(ws, x, ws.ent[x].rules).interrupt
          /\ mgr.behaviour[x].first # <<>>

\* ---------------------------------------------------------------- claim C12
\* The entities that carry an arbiter
Arbitered ==
    { x \in Range(ws.entities) : HasComponent(ws.ent[x], "DecisionArbiterComponent") }

\* The entities with an enabled controller
Controlled ==
    { x \in Range(ws.entities) : ResolveEnabledControllerComponent(ws, x) # None }

\* The rules of the entity's arbiter that fire in the current world
Firing(x) ==
    { i \in 1..Len(ws.ent[x].rules) :
        ShouldInterrupt(ws, x, ws.ent[x].rules[i]).interrupt }

\* The arbiter's answer is that of a firing rule no other firing rule
\* undercuts in priority value (no interrupt when none fires)
AnswersSmallestFiring(x) ==
    LET r == CheckIfInterruptIsNeeded(ws, x, ws.ent[x].rules) IN
    IF Firing(x) = {} THEN ~r.interrupt
    ELSE /\ \E i \in Firing(x) : r = ShouldInterrupt(ws, x, ws.ent[x].rules[i])
         /\ \A i \in Firing(x) : r.priority <= ws.ent[x].rules[i].priority

\* The entity's nutrition is below the threshold of a LowNutrition rule of its
BelowThreshold(x) ==
    /\ HasComponent(ws.ent[x], "CreatureComponent")
    /\ \E i \in 1..Len(ws.ent[x].rules) :
          /\ ws.ent[x].rules[i].type = "LowNutrition"
          /\ ws.ent[x].current_nutrition < ws.ent[x].rules[i].threshold

\* Every LowNutrition rule of the entity has a smaller priority value than
\* every Idle rule of its
LowNutritionFirst(x) ==
    \A i, j \in 1..Len(ws.ent[x].rules) :
        (ws.ent[x].rules[i].type = "LowNutrition" /\ ws.ent[x].rules[j].type = "Idle")
            => ws.ent[x].rules[i].priority < ws.ent[x].rules[j].priority

\* C12 as stated: check_if_interrupt_is_needed returns the result of the
\* firing rule with the smallest priority value; when the actor's nutrition is
\* below the LowNutrition threshold the rule_type returned is LowNutrition,
\* with or without a task.
C12_SmallestFiringRuleWins ==
    \A x \in Arbitered :
        /\ AnswersSmallestFiring(x)
        /\ BelowThreshold(x) =>
              CheckIfInterruptIsNeeded(ws, x, ws.ent[x].rules).rule_type = "LowNutrition"

\* C12 as amended: for an actor with an enabled controller,
\* check_if_interrupt_is_needed returns the result of the firing rule with
\* the smallest priority value; when moreover its nutrition is below the
\* LowNutrition threshold and its LowNutrition rule has a smaller priority
\* value than its Idle rule, the rule_type returned is LowNutrition, with or
\* without a task.
C12_SmallestFiringRuleOfControlled ==
    \A x \in Arbitered \cap Controlled :
        /\ AnswersSmallestFiring(x)
        /\ (BelowThreshold(x) /\ LowNutritionFirst(x)) =>
              CheckIfInterruptIsNeeded(ws, x, ws.ent[x].rules).rule_type = "LowNutrition"

\* a hungry actor with an enabled controller that holds a task, and whose
\* Idle rule therefore does not fire, is answered LowNutrition
C12_Witness ==
    \E x \in Arbitered \cap Controlled :
        /\ BelowThreshold(x) /\ LowNutritionFirst(x) /\ WorkerBusy(ws, x)
        /\ Cardinality(Firing(x)) = 1
        /\ CheckIfInterruptIsNeeded(ws, x, ws.ent[x].rules).rule_type = "LowNutrition"

\* ---------------------------------------------------------------- claim C13
\* The entries of the given kind in the last step's trace
TraceOfKind(kind) == { i \in 1..Len(mgr.trace) : mgr.trace[i].kind = kind }

\* C13: when an interrupt fires for an actor whose Worker holds a task, the
\* task is Paused and the Worker's current_task_id empty before decide is
\* first called for the actor in that tick; and at every call of decide the
\* actor's current_task_id is empty.
C13_TaskPausedBeforeDecide ==
    /\ \A i \in TraceOfKind("interrupt") :
          /\ mgr.trace[i].status = "Paused"
          /\ mgr.trace[i].what = None
          /\ \A j \in TraceIndices(mgr.trace[i].entity, {"decide"}) : i < j
    /\ \A j \in TraceOfKind("decide") : mgr.trace[j].id = None

\* a step in which an actor holding a task was interrupted and then asked
C13_Witness ==
    /\ last.op = "step"
    /\ \E i \in TraceOfKind("interrupt") :
          /\ mgr.trace[i].id # None
          /\ TraceIndices(mgr.trace[i].entity, {"decide"}) # {}

\* ---------------------------------------------------------------- claim C14
\* C14: once the matcher rejects an action of an actor, no further action is
\* processed, no effect executed and the provider not asked again for that
\* actor in the rest of the tick.
C14_RejectionEndsTurn ==
    \A i \in TraceOfKind("command") :
        mgr.trace[i].status # "success" =>
            \A j \in TraceIndices(mgr.trace[i].entity, {"command", "effect", "decide"}) :
                j <= i

\* a step in which an action was rejected while the provider's list still
\* held an action after it
C14_Witness ==
    /\ last.op = "step"
    /\ \E i \in TraceOfKind("command") :
          /\ mgr.trace[i].status # "success"
          /\ Len(mgr.behaviour[mgr.trace[i].entity].first)
                > Cardinality(TraceIndices(mgr.trace[i].entity, {"command"}))

\* ---------------------------------------------------------------- claim C15
\* C15: when executing the effects of an actor's command yields an
\* ExecutorError event, the actor's action loop halts: no later action of
\* that actor is processed in that tick.
C15_ExecutorErrorEndsTurn ==
    \A i \in TraceOfKind("effect") :
        mgr.trace[i].status = "ExecutorError" =>
            \A j \in TraceIndices(mgr.trace[i].entity, {"command"}) : j < i

\* ---------------------------------------------------------------- claim C16
\* The trace entry is the last effect of an action of the entity: effects
\* only between it and a command of the entity before it, no effect after it
LastEffectOfAction(i) ==
    /\ mgr.trace[i].kind = "effect"
    /\ \E j \in TraceIndices(mgr.trace[i].entity, {"command"}) :
          /\ j < i
          /\ \A k \in (j + 1)..i : mgr.trace[k].kind = "effect"
    /\ (i < Len(mgr.trace) => mgr.trace[i + 1].kind # "effect")

\* C16: as soon as the effects of an action leave the actor's Worker with a
\* current task, the action loop stops: no further action of the list is
\* processed and decide is not called again for that actor in that tick.
C16_TaskEndsTurn ==
    \A i \in TraceOfKind("effect") :
        (LastEffectOfAction(i) /\ mgr.trace[i].id # None) =>
            \A j \in TraceIndices(mgr.trace[i].entity, {"command", "decide"}) : j < i

\* a step in which an action gave the actor a task while the provider's list
\* still held an action after it
C16_Witness ==
    /\ last.op = "step"
    /\ \E i \in TraceOfKind("effect") :
          /\ LastEffectOfAction(i)
          /\ mgr.trace[i].id # None
          /\ Len(mgr.behaviour[mgr.trace[i].entity].first)
                > Cardinality(TraceIndices(mgr.trace[i].entity, {"command"}))

\* ---------------------------------------------------------------- claim C17
\* C17: in one tick and for one actor, per_tick processes at most 50 actions
\* and comes out of its loop, also for a provider that returns a non-empty
\* list every time it is asked and whose actions never change the world.
C17_ActionCeiling ==
    /\ \A x \in Range(mgr.snapshot) :
          Cardinality(TraceIndices(x, {"command"})) <= MaxActionsInTick
    /\ \A i \in TraceOfKind("loop") : mgr.trace[i].status = "done"

\* a step in which the provider answered every call with an action that
\* changes nothing, and the actor's loop ended at the ceiling
C17_Witness ==
    /\ last.op = "step"
    /\ \E x \in Range(mgr.snapshot) :
          /\ mgr.behaviour[x].later # <<>>
          /\ Cardinality(TraceIndices(x, {"command"})) = MaxActionsInTick
          /\ Cardinality(TraceIndices(x, {"decide"})) = MaxActionsInTick
          /\ \A i \in TraceIndices(x, {"command"}) :
                 mgr.trace[i].what = "Wait" /\ mgr.trace[i].status = "success"
          /\ \E i \in TraceIndices(x, {"loop"}) : mgr.trace[i].status = "done"

\* ---------------------------------------------------------------- claim C18
\* The actions a step handed to the matcher, in order
IsCommand(entry) == entry.kind = "command"
CommandsOf(trace) == SelectSeq(trace, IsCommand)

\* The entry is the log's record of the command: same actor, verb and
\* target, success for success and failed for anything else
Records(entry, command) ==
    /\ entry.actor_id = command.entity
    /\ entry.verb = command.what
    /\ entry.target_id = command.id
    /\ entry.status = (IF command.status = "success" THEN "success" ELSE "failed")

\* C18: every action passed to the matcher appends exactly one entry to the
\* interaction log, of status success or failed; seq grows by exactly one
\* from entry to entry; entries once written are never modified or removed.
C18_OneLogEntryPerAction ==
    [][ LET old == ws.interaction_log
            new == ws'.interaction_log
            commands == CommandsOf(mgr'.trace)
        IN  /\ Len(new) = Len(old) + Len(commands)
            /\ SubSeq(new, 1, Len(old)) = old
            /\ \A k \in 1..Len(commands) :
                  /\ Records(new[Len(old) + k], commands[k])
                  /\ new[Len(old) + k].seq = ws.interaction_seq + k
            /\ ws'.interaction_seq = ws.interaction_seq + Len(commands) ]_vars

\* a step after which the log holds an earlier entry, then a successful and
\* a failed attempt of this step
C18_Witness ==
    /\ last.op = "step"
    /\ \E i, j, k \in 1..Len(ws.interaction_log) :
          /\ i < j /\ j < k
          /\ ws.interaction_log[i].tick < ws.total_ticks
          /\ ws.interaction_log[j].tick = ws.total_ticks
          /\ ws.interaction_log[j].status = "success"
          /\ ws.interaction_log[k].tick = ws.total_ticks
          /\ ws.interaction_log[k].status = "failed"

\* ---------------------------------------------------------------- claim C19
\* The ids of the entities list perceive returns for the observer
PerceivedIds(observer) ==
    { Perceive(ws, observer).entities[i].id :
        i \in 1..Len(Perceive(ws, observer).entities) }

\* The actors: the registered entities tagged agent
Actors == { x \in Range(ws.entities) : "agent" \in GetAllTags(ws.ent[x]) }

\* The registered containers that hold the id in a slot of the given
\* transparency
HoldersBySlot(entity_id, transparent) ==
    { p[1] : p \in { q \in SlotsHolding(ws, entity_id) :
                        ws.ent[q[1]].slots[q[2]].transparent = transparent } }

\* C19: perceive never includes in its entities list an entity that is held
\* in a container slot whose transparent flag is false.
C19_OpaqueContentsUnseen ==
    \A observer \in Actors :
        \A e \in PerceivedIds(observer) : HoldersBySlot(e, FALSE) = {}

\* ---------------------------------------------------------------- claim C20
\* C20: perceive includes every entity held in a transparent slot of a
\* container that is itself visible, recursively, and does not include the
\* contents of a transparent slot whose container is not visible.
C20_TransparentContentsSeen ==
    \A observer \in Actors :
        \A e \in Range(ws.entities) : \A c \in HoldersBySlot(e, TRUE) :
            (e \in PerceivedIds(observer)) <=> (c \in PerceivedIds(observer))

\* ---------------------------------------------------------------- claim C21
\* The ids perceive finds visible for an observer in the location, before
\* they are described
VisibleIds(location_id) ==
    ExpandTransparentContents(ws,
        Without(ws.locations[location_id],
                CollectContainedIdsInLocation(ws, location_id)))

\* C21: the hidden count perceive returns equals the size of the actor's
\* location membership list minus the number of visible entity ids.
C21_HiddenCountIsDifference ==
    \A observer \in Actors :
        GetLocationOfEntity(ws, observer) # None =>
            Perceive(ws, observer).hidden_entity_count
                = Len(ws.locations[GetLocationOfEntity(ws, observer)])
                    - Len(VisibleIds(GetLocationOfEntity(ws, observer)))

\* ---------------------------------------------------------------- claim C22
\* The ids are distinct, and each names an entity of W without a container
Consumable(W, ids) ==
    /\ ids # <<>>
    /\ Cardinality(Range(ids)) = Len(ids)
    /\ \A i \in 1..Len(ids) :
          /\ Registered(W, ids[i])
          /\ ~HasComponent(W.ent[ids[i]], "ContainerComponent")

\* C22: ConsumeInputs with a context list of n distinct resolvable ids of
\* non-container entities returns exactly n EntityDestroyed events, one per
\* id in list order, and afterwards none of the ids is in any location list,
\* container slot or the entity table.
C22_ConsumeDestroysEach ==
    [][ (last'.op = "ConsumeInputs"
            /\ Consumable(ws, last'.ctx.entities_for_consumption_ids)) =>
        LET ids == last'.ctx.entities_for_consumption_ids IN
        /\ ~last'.raised
        /\ last'.events = [i \in 1..Len(ids) |-> Ev("EntityDestroyed", ids[i])]
        /\ \A i \in 1..Len(ids) : NoTraceOf(ws', ids[i]) ]_vars

\* ConsumeInputs has returned two EntityDestroyed events for a list of two
C22_Witness ==
    /\ last.op = "ConsumeInputs"
    /\ Len(last.ctx.entities_for_consumption_ids) = 2
    /\ last.events = [i \in 1..2 |->
                        Ev("EntityDestroyed", last.ctx.entities_for_consumption_ids[i])]

\* ---------------------------------------------------------------- claim C23
\* The provider's behaviour without the calls of stop()
Unstopped(b) ==
    [x \in DOMAIN b |-> IF b[x].sig3 = "stop" THEN [b[x] EXCEPT !.sig3 = "ok"] ELSE b[x]]

\* The trace without the calls of stop()
NotStops(entry) == entry.kind # "stop"

\* C23: run(max_ticks) starts at most max_ticks steps. A step during which
\* stop() is called does to the world, and calls of the hooks and the
\* provider, what it does without that call, for every entity and component
\* of its iteration; and it is the last step the run starts.
C23_StopAtTickBoundary ==
    [][ /\ mgr'.run.steps <= mgr'.run.max_ticks
        /\ mgr'.run.stop_at # 0 => mgr'.run.steps = mgr'.run.stop_at
        /\ (last'.op = "step" /\ StopIssued(mgr'.trace)) =>
               /\ ws' = Step(ws, hist, Unstopped(mgr'.behaviour)).ws
               /\ SelectSeq(mgr'.trace, NotStops)
                      = Step(ws, hist, Unstopped(mgr'.behaviour)).trace
               /\ last'.raised = Step(ws, hist, Unstopped(mgr'.behaviour)).raised ]_vars

\* run(2) has returned after one step, during which the first agent's decide
\* called stop() and the second agent's hooks were still called
C23_Witness ==
    /\ last.op = "returned"
    /\ mgr.run.max_ticks = 2 /\ mgr.run.steps = 1 /\ mgr.run.stop_at = 1
    /\ \E i, j \in 1..Len(mgr.trace) :
           /\ i < j
           /\ mgr.trace[i].kind = "stop" /\ mgr.trace[i].entity = "alice"
           /\ mgr.trace[j].kind = "hook" /\ mgr.trace[j].entity = "bob"

\* ---------------------------------------------------------------- claim C24
\* C24: once run() has returned, is_running is false.
C24_StoppedAfterRun == last.op = "returned" => ~mgr.run.is_running

\* ---------------------------------------------------------------- claim C25
\* The places in the declaration order of the recipes that fit a command:
\* the verb is the command's, every target tag is on the target, and the
\* first key of parameter_match, if there is one, has its value in the
\* command's parameters
Fitting(W, command) ==
    { i \in 1..Len(RecipeOrder) :
        /\ RecipeDb[RecipeOrder[i]].verb = command.verb
        /\ \A tag \in RecipeDb[RecipeOrder[i]].target_tags :
               tag \in GetAllTags(W.ent[command.target_id])
        /\ \/ RecipeDb[RecipeOrder[i]].parameter_match = <<>>
           \/ command.parameters[RecipeDb[RecipeOrder[i]].parameter_match[1]]
                  = RecipeDb[RecipeOrder[i]].parameter_match[2] }

\* C25: process_command fails with NO_TARGET when the target id is not an
\* entity; otherwise it fails with NO_RECIPE exactly when no recipe fits, and
\* else succeeds with the first fitting recipe in declaration order.
C25_FirstFittingRecipe ==
    last.op = "process_command" =>
        IF last.command.target_id \notin Range(ws.entities)
            THEN last.status = "failed" /\ last.reason = "NO_TARGET"
        ELSE IF Fitting(ws, last.command) = {}
            THEN last.status = "failed" /\ last.reason = "NO_RECIPE"
        ELSE /\ last.status = "success"
             /\ \E i \in Fitting(ws, last.command) :
                    /\ last.ctx.recipe = RecipeOrder[i]
                    /\ \A j \in Fitting(ws, last.command) : i <= j

\* two recipes fit the command, and it went to the one declared first
C25_Witness ==
    /\ last.op = "process_command"
    /\ last.ctx.recipe = "nibble"
    /\ Cardinality(Fitting(ws, last.command)) = 2

\* ---------------------------------------------------------------- claim C26
\* The verbs all of whose recipes ask for progress
TaskVerbs ==
    { RecipeDb[r].verb : r \in RecipeIds } \
        { RecipeDb[r].verb : r \in { q \in RecipeIds : RecipeDb[q].required_progress = 0 } }

\* C26: a command accepted for a recipe with required_progress other than 0
\* has one effect executed for it, CreateTask, and none of the recipe's
\* outputs; these are the completion effects of the task.
C26_TaskRecipeOnlyCreatesTask ==
    /\ \A i \in TraceOfKind("command") :
          (mgr.trace[i].status = "success" /\ mgr.trace[i].what \in TaskVerbs) =>
              /\ i < Len(mgr.trace)
              /\ mgr.trace[i + 1].kind = "effect"
              /\ mgr.trace[i + 1].what = "CreateTask"
              /\ (i + 1 < Len(mgr.trace) => mgr.trace[i + 2].kind # "effect")
    /\ \A t \in ws.tasks :
          \E r \in RecipeIds :
              /\ RecipeDb[r].verb = ws.task[t].task_type
              /\ RecipeDb[r].required_progress # 0
              /\ ws.task[t].completion_effects = RecipeDb[r].outputs

\* a step in which Sleep was accepted and its task, holding the outputs, is
\* registered
C26_Witness ==
    /\ last.op = "step"
    /\ \E i \in TraceOfKind("command") :
          /\ mgr.trace[i].status = "success" /\ mgr.trace[i].what = "Sleep"
          /\ mgr.trace[i + 1].what = "CreateTask"
    /\ \E t \in ws.tasks : ws.task[t].completion_effects # <<>>

\* ---------------------------------------------------------------- claim C27
\* The entity a task created under the context is attached to: the actor the
\* context names if it is registered, else the target
HostFor(W, ctx) ==
    IF ctx.agent_id # None /\ ctx.agent_id \in Range(W.entities)
    THEN ctx.agent_id ELSE ctx.target_id

\* C27: CreateTask under a context with a registered target and a recipe
\* registers one new task and attaches it to the host of the actor, if the
\* context names a registered one, else of the target; when the actor has a
\* Worker its current_task_id is the new id, the task is InProgress and the
\* events are TaskCreated, then TaskAssigned.
C27_TaskAttachedAndAssigned ==
    [][ (/\ last'.op = "CreateTask"
         /\ last'.ctx.target_id \in Range(ws.entities)
         /\ last'.ctx.recipe \in RecipeIds) =>
        /\ ~last'.raised
        /\ \E t \in TaskIds \ ws.tasks :
              /\ ws'.tasks = ws.tasks \cup {t}
              /\ HostName(ws'.ent[HostFor(ws, last'.ctx)]) # None
              /\ t \in ws'.ent[HostFor(ws, last'.ctx)].host_tasks
              /\ last'.events[1] = Ev("TaskCreated", t)
              /\ (/\ HostFor(ws, last'.ctx) = last'.ctx.agent_id
                  /\ HasComponent(ws.ent[last'.ctx.agent_id], "WorkerComponent")) =>
                     /\ ws'.ent[last'.ctx.agent_id].current_task_id = t
                     /\ ws'.task[t].task_status = "InProgress"
                     /\ last'.events = <<Ev("TaskCreated", t), Ev("TaskAssigned", t)>> ]_vars

\* a second task was created for an actor whose Worker held the first
C27_Witness ==
    /\ last.op = "CreateTask"
    /\ last.ctx.agent_id = "alice"
    /\ Cardinality(ws.tasks) = 2
    /\ ws.tasks \subseteq ws.ent["alice"].host_tasks
    /\ Len(last.events) = 2
    /\ last.events[2] = Ev("TaskAssigned", ws.ent["alice"].current_task_id)

\* ---------------------------------------------------------------- claim C28
\* The Worker hooks of the last step that found their task and advanced it
WorkerTurns ==
    { i \in TraceOfKind("hook") :
        /\ mgr.trace[i].what = "WorkerComponent"
        /\ i < Len(mgr.trace)
        /\ mgr.trace[i + 1].kind = "effect"
        /\ mgr.trace[i + 1].what = "ProgressTask" }

\* The effects of the given kind executed during the hook entered at i
EffectsOfTurn(i, what) ==
    { j \in (i + 1)..Len(mgr.trace) :
        /\ mgr.trace[j].what = what
        /\ \A k \in (i + 1)..j : mgr.trace[k].kind = "effect" }

\* C28: a Worker that advanced its task in a tick executes FinishTask in
\* that tick exactly when, after its ProgressTask and the tick effects, the
\* task's progress has reached required_progress (and no effect raised);
\* FinishTask is executed once, last, and the Worker's current_task_id is
\* empty when the hook returns.
C28_FinishIffComplete ==
    \A i \in WorkerTurns :
        /\ (EffectsOfTurn(i, "FinishTask") # {}) <=>
               /\ IsComplete(ws.task[mgr.trace[i + 1].id])
               /\ \A j \in EffectsOfTurn(i, "ProgressTask") :
                      mgr.trace[j].status # "raised"
        /\ Cardinality(EffectsOfTurn(i, "FinishTask")) <= 1
        /\ \A j \in EffectsOfTurn(i, "FinishTask") :
               /\ \A k \in EffectsOfTurn(i, "ProgressTask") : k < j
               /\ mgr.trace[j].status # "raised" =>
                      ws.ent[mgr.trace[i].entity].current_task_id = None

\* a Worker finished its task in the tick in which only the tick effect
\* completed it
C28_Witness ==
    \E i \in WorkerTurns :
        /\ Cardinality(EffectsOfTurn(i, "ProgressTask")) = 2
        /\ EffectsOfTurn(i, "FinishTask") # {}
        /\ ws.task[mgr.trace[i + 1].id].progress = ws.task[mgr.trace[i + 1].id].required_progress

\* ---------------------------------------------------------------- claim C29
\* The entities whose Worker holds a registered task that a tick advances,
\* with the progress a tick adds
Working(W) ==
    { x \in Range(W.entities) :
        /\ HasComponent(W.ent[x], "WorkerComponent")
        /\ W.ent[x].current_task_id \in W.tasks
        /\ ComputeProgressDelta(W, x, W.task[W.ent[x].current_task_id], TicksPerStep) > 0 }

\* What is left to do of the task the entity holds
Remaining(W, x) ==
    W.task[W.ent[x].current_task_id].required_progress
        - W.task[W.ent[x].current_task_id].progress

\* C29: a step in which no interrupt fires for an entity whose Worker holds
\* task T (none is due when the step starts, none is made during it) brings T
\* forward by the delta of a tick, and finishes T when that
\* reaches required_progress: TaskFinished is emitted, T is no longer
\* registered and the Worker's current_task_id is empty. (So T is finished
\* within ceil((required_progress - progress) / delta) such steps.)
C29_HeldTaskIsFinished ==
    [][ last'.op = "step" =>
        \A x \in Working(ws) :
            (/\ ~CheckIfInterruptIsNeeded(ws, x, ws.ent[x].rules).interrupt
             /\ \A i \in 1..Len(mgr'.trace) :
                    ~(mgr'.trace[i].kind = "interrupt" /\ mgr'.trace[i].entity = x)) =>
            IF Remaining(ws, x)
                  <= ComputeProgressDelta(ws, x, ws.task[ws.ent[x].current_task_id],
                                          TicksPerStep)
            THEN /\ \E i \in 1..Len(last'.events) :
                        last'.events[i] = Ev("TaskFinished", ws.ent[x].current_task_id)
                 /\ ws.ent[x].current_task_id \notin ws'.tasks
                 /\ ws'.ent[x].current_task_id = None
            ELSE /\ ws'.ent[x].current_task_id = ws.ent[x].current_task_id
                 /\ Remaining(ws', x) <= Remaining(ws, x)
                        - ComputeProgressDelta(ws, x, ws.task[ws.ent[x].current_task_id],
                                               TicksPerStep) ]_vars

\* ---------------------------------------------------------------- claim C30
\* Where the last call's events hold EntityDestroyed for the id
DestroyedAt(events, entity_id) ==
    { i \in 1..Len(events) : events[i] = Ev("EntityDestroyed", entity_id) }

\* C30: DestroyEntity refused with a single ExecutorError changes nothing, and
\* it is refused so whenever its target is not registered. On a registered
\* entity E it returns EntityDestroyed once for E, as the last event, once
\* for every entity transitively contained in E, before the event of each
\* container holding it, and for no other id.
C30_DestroyEventsInOrder ==
    [][ last'.op = "DestroyEntity" =>
        IF IsErrorOnly(last')
            THEN ws' = ws
        ELSE /\ last'.ctx.entity_to_destroy_id \in Range(ws.entities)
             /\ ~last'.raised
             /\ last'.events[Len(last'.events)]
                    = Ev("EntityDestroyed", last'.ctx.entity_to_destroy_id)
             /\ \A e \in EntityIds :
                    Cardinality(DestroyedAt(last'.events, e)) =
                        IF e \in {last'.ctx.entity_to_destroy_id}
                               \cup (ContainedIn(ws, last'.ctx.entity_to_destroy_id)
                                        \cap Range(ws.entities))
                        THEN 1 ELSE 0
             /\ \A c \in {last'.ctx.entity_to_destroy_id}
                           \cup ContainedIn(ws, last'.ctx.entity_to_destroy_id) :
                    \A e \in Range(GetAllItemIds(ws.ent[c])) \cap Range(ws.entities) :
                        \A i \in DestroyedAt(last'.events, e) :
                            \A j \in DestroyedAt(last'.events, c) : i < j ]_vars

\* ---------------------------------------------------------------- claim C31
\* The slots of every registered container
SlotsOf(W) == [c \in Range(W.entities) |-> W.ent[c].slots]

\* C31: a TransferEntity that returns a single ExecutorError leaves every
\* location list and every container slot as they were before the call.
C31_FailedTransferChangesNothing ==
    [][ (last'.op = "TransferEntity" /\ IsErrorOnly(last')) =>
            /\ ws'.locations = ws.locations
            /\ SlotsOf(ws') = SlotsOf(ws) ]_vars

\* ---------------------------------------------------------------- claim C32
\* C32: ModifyProperty returns PropertyModified or a single ExecutorError; on
\* ExecutorError it changes nothing, and it never gives a component a
\* property the component did not have.
C32_ModifyNeverCreates ==
    [][ last'.op = "ModifyProperty" =>
        /\ ~last'.raised
        /\ IF IsErrorOnly(last') THEN ws' = ws
           ELSE last'.events = <<Ev("PropertyModified", last'.ctx.target_id)>>
        /\ \A e \in Range(ws.entities) : \A p \in UnknownProps :
               UnknownData(ws, e, p).kind = "absent" =>
                   UnknownData(ws', e, p).kind = "absent" ]_vars

\* ---------------------------------------------------------------- claim C34
\* The tags execute knows
EffectTags ==
    {"ModifyProperty", "CreateEntity", "DestroyEntity", "TransferEntity",
     "AddCondition", "RemoveCondition", "ConsumeInputs", "CreateTask",
     "ProgressTask", "UpdateTaskStatus", "FinishTask"}

\* C34: execute with no effect tag, or with a tag it does not know, returns
\* exactly one ExecutorError and leaves the world as it was.
C34_UnknownTagChangesNothing ==
    [][ last'.op \notin EffectTags =>
            /\ IsErrorOnly(last')
            /\ ws' = ws ]_vars

\* a call with a tag execute does not know, after a call that changed the
\* world
C34_Witness ==
    /\ last.op = "Teleport"
    /\ IsErrorOnly(last)
    /\ \E e \in Range(ws.entities) : \E p \in UnknownProps :
           UnknownData(ws, e, p).kind # "absent"

\* ---------------------------------------------------------------- claim C33
\* C33: whenever CreateEntity returns EntityCreated, the new entity is
\* registered and listed in exactly one location, and when a container holds
\* it, that location is the one the container is listed in.
C33_CreatedIsPlaced ==
    (last.op = "CreateEntity" /\ ~last.raised /\ ~IsErrorOnly(last)) =>
        /\ Len(last.events) = 1
        /\ last.events[1].type = "EntityCreated"
        /\ Registered(ws, last.events[1].id)
        /\ Cardinality(LocationsListing(ws, last.events[1].id)) = 1
        /\ \A c \in Holders(ws, last.events[1].id) :
               LocationsListing(ws, c) = LocationsListing(ws, last.events[1].id)

\* ---------------------------------------------------------------- claim C35
\* The (entity, component) pairs with a per_tick hook, entities in the order
\* of ids, components in the order they were attached
RECURSIVE HooksDue(_, _)
HooksDue(W, ids) ==
    IF ids = <<>> THEN <<>>
    ELSE LET named == SelectSeq(W.ent[Head(ids)].components,
                                LAMBDA name : HookOf(name) # "none")
         IN  [i \in 1..Len(named) |-> <<Head(ids), named[i]>>]
                 \o HooksDue(W, Tail(ids))

\* The (entity, component) pairs whose per_tick was called, in call order
HooksCalled(trace) ==
    LET hooks == SelectSeq(trace, LAMBDA entry : entry.kind = "hook")
    IN  [i \in 1..Len(hooks) |-> <<hooks[i].entity, hooks[i].what>>]

\* C35: each step() advances the clock by ticks_per_step, returns TickAdvanced
\* as its first event and logs it at the new total, and calls per_tick of every component of every entity
\* registered when the iteration starts exactly once, in registration order
\* and attachment order.
C35_StepTicksEveryEntityOnce ==
    [][ last'.op = "step" =>
            /\ ws'.total_ticks = ws.total_ticks + TicksPerStep
            /\ Len(last'.events) >= 1
            /\ last'.events[1] = Ev("TickAdvanced", "")
            /\ ws'.event_log[Len(ws.event_log) + 1].event = Ev("TickAdvanced", "")
            /\ ws'.event_log[Len(ws.event_log) + 1].tick = ws'.total_ticks
            /\ HooksCalled(mgr'.trace) = HooksDue(ws, ws.entities) ]_vars

\* ---------------------------------------------------------------- claim C36
\* The location reached from the holder of the id, going from holder to
\* holder until one is listed in a location, in at most `left` moves
RECURSIVE LocationAbove(_, _, _)
LocationAbove(W, entity_id, left) ==
    IF left = 0 \/ Holders(W, entity_id) = {} THEN None
    ELSE LET holder == FindContainerEntityHoldingItem(W, entity_id)
         IN  IF LocationsListing(W, holder) # {}
                 THEN FirstLocationListing(W, holder, 1)
             ELSE LocationAbove(W, holder, left - 1)

\* C36: get_location_of_entity returns a location that lists the entity when
\* there is one, otherwise the location reached by walking up the holders,
\* and None when the walk meets a cycle or an entity nothing holds.
C36_LocationOfEntity ==
    \A e \in MentionedIds(ws) \cup {"ghost"} :
        IF LocationsListing(ws, e) # {}
            THEN GetLocationOfEntity(ws, e) \in LocationsListing(ws, e)
        ELSE GetLocationOfEntity(ws, e) = LocationAbove(ws, e, Len(ws.entities) + 1)

\* an unlisted container that holds itself and nothing else holds resolves
\* to no location
C36_Witness ==
    \E e \in Range(ws.entities) :
        /\ LocationsListing(ws, e) = {}
        /\ Holders(ws, e) = {e}
        /\ GetLocationOfEntity(ws, e) = None

\* ---------------------------------------------------------------- claim C37
\* C37: in every world reached from a built one by CreateEntity,
\* TransferEntity and DestroyEntity, an entity held in a slot of a container
\* is listed in the location the container resolves to, and in no other.
C37_HeldIsListedWithHolder ==
    \A c \in Range(ws.entities) : \A e \in Range(GetAllItemIds(ws.ent[c])) :
        GetLocationOfEntity(ws, c) # None =>
            LocationsListing(ws, e) = {GetLocationOfEntity(ws, c)}

\* ---------------------------------------------------------------- claim C38
\* The snapshots of the bundle, in declaration order
Declared(bundle) == AllSnapshots(bundle, 1)

\* C38: after build_world_state, every entity declared with a
\* parent_container that names an entity is held in that entity's container
\* and listed in the location that lists the parent, whatever the order of
\* the declarations.
C38_BuiltChildWithParent ==
    last.op = "build" =>
        \A i \in 1..Len(Declared(last.bundle)) :
            LET sn == Declared(last.bundle)[i]
            IN  (sn.parent_container # "" /\ Registered(ws, sn.parent_container)) =>
                    /\ sn.parent_container \in Holders(ws, sn.instance_id)
                    /\ LocationsListing(ws, sn.instance_id)
                           = LocationsListing(ws, sn.parent_container)

\* ---------------------------------------------------------------- claim C39
\* C39: once EntityDestroyed has been logged for an entity, no event of an
\* effect executed with that entity as agent_id is logged after it, in that
\* tick or in a later one.
C39_DestroyedActsNoMore ==
    \A i, j \in 1..Len(ws.event_log) :
        (i < j /\ ws.event_log[i].event.type = "EntityDestroyed")
            => ws.event_log[j].actor_id # ws.event_log[i].event.id

\* ---------------------------------------------------------------- claim C40
\* The task the Worker of the entity points to ("" when none)
Pointer(W, x) == W.ent[x].current_task_id

\* The trace holds no effect of the entity's Worker hook
WorkerQuiet(trace, x) ==
    \A i \in 1..Len(trace) :
        (/\ trace[i].kind = "hook" /\ trace[i].entity = x
         /\ trace[i].what = "WorkerComponent" /\ i < Len(trace))
            => trace[i + 1].kind # "effect"

\* C40: after a step in which every hook returned, the current_task_id of a
\* Worker is empty or names a registered task that is not complete; a pointer
\* to a task that is not registered when the step starts is cleared by that
\* step, the Worker hook executing no effect.
C40_WorkerPointerIsLive ==
    [][ (last'.op = "step" /\ ~last'.raised) =>
          \A x \in { e \in Range(ws.entities) :
                        HasComponent(ws.ent[e], "WorkerComponent") } :
            /\ \/ Pointer(ws', x) = None
               \/ /\ Pointer(ws', x) \in ws'.tasks
                  /\ ~IsComplete(ws'.task[Pointer(ws', x)])
            /\ (Pointer(ws, x) # None /\ Pointer(ws, x) \notin ws.tasks) =>
                  /\ Pointer(ws', x) = None
                  /\ WorkerQuiet(mgr'.trace, x) ]_vars

\* a step in which alice was not asked to decide, because her Worker pointed
\* to a task, and in which her Worker executed nothing and gave the pointer
\* up: the task was not registered
C40_Witness ==
    /\ last.op = "step" /\ ~last.raised
    /\ Pointer(ws, "alice") = None
    /\ \A i \in 1..Len(mgr.trace) : mgr.trace[i].kind \notin {"decide", "effect"}
    /\ \E i \in 1..Len(mgr.trace) :
           mgr.trace[i] = Trace("hook", "alice", "WorkerComponent", "", "")
====
